---- MODULE Spec2Model ----
(***************************************************************************)
(* react-autolocalise: the translation engine (TranslationService), its    *)
(* debounced client front end and the coalescing server front end          *)
(* (ServerTranslationCache and the entry points built on it).              *)
(*                                                                         *)
(* Strings are sequences of character codes.  A JavaScript object used as  *)
(* a map is a function whose DOMAIN is the set of keys present.  null and  *)
(* undefined are the two non-string values Null and Undefined.             *)
(*                                                                         *)
(* Scheduling follows the JavaScript event loop: a continuation whose      *)
(* awaited promise is already settled (a microtask) runs before any timer  *)
(* callback or network completion (macrotasks); microtasks of different    *)
(* callers run in any order.                                               *)
(***************************************************************************)
EXTENDS Integers, Sequences, FiniteSets, TLC

\* ------------------------------------------------------------------ bounds
MaxCallers == 2
MaxNetCalls == 2
MaxStamp == 3

\* The longest array of nodes handed to extractTextAndStyles.
MaxNodes == 2

\* The longest translated template handed to restoreStyledText, in pieces.
MaxPieces == 3

\* The longest string handed to generateHash on its own.
MaxHashLen == 5

\* CLIENT_BATCH_DEBOUNCE_MS, counted in clock ticks.
DebounceTicks == 2

\* --------------------------------------------------------------- strings
Null == <<-1>>
Undefined == <<-2>>
EmptyString == <<>>

TextAa == <<65, 97>>
TextBB == <<66, 66>>
TextC == <<67>>
TextSpace == <<32>>

\* "C<0>Aa</0>" and "<0><</0>"
TemplateCAa == <<67, 60, 48, 62, 65, 97, 60, 47, 48, 62>>
TemplateLess == <<60, 48, 62, 60, 60, 47, 48, 62>>

WhiteSpace == {9, 10, 11, 12, 13, 32}

SeqToSet(s) == {s[i] : i \in 1..Len(s)}

\* JavaScript truthiness of a string-or-null value.
Truthy(v) == v \notin {Null, Undefined, EmptyString}

\* text.trim() === ""
IsBlank(text) == \A i \in 1..Len(text) : text[i] \in WhiteSpace

\* The translation the API produces for a source text: "T" followed by it.
ApiTranslation(text) == <<84>> \o text

\* ------------------------------------------------------------------ maps
EmptyMap == [k \in {} |-> Null]

\* obj[key]: the value, or undefined when the key is absent.
Get(map, key) == IF key \in DOMAIN map THEN map[key] ELSE Undefined

\* { ...a, ...b }
Merge(a, b) ==
    [k \in (DOMAIN a) \cup (DOMAIN b) |-> IF k \in DOMAIN b THEN b[k] ELSE a[k]]

\* Object.fromEntries(texts.map((str) => [str, str]))
IdentityMap(texts) == [t \in SeqToSet(texts) |-> t]

\* ------------------------------------------------------------- generateHash
\* hash = (hash << 5) - hash + char; hash = hash & hash, on 32-bit signed
\* integers: 31 * hash + char modulo 2^32.  The value is carried as two 16-bit
\* halves so that no intermediate result leaves the 32-bit range.
HashStepShiftOnly(h, char) ==
    LET lo == 32 * h[2] + char
        hi == 32 * h[1] + (lo \div 65536)
    IN  <<hi % 65536, lo % 65536>>

HashStep(h, char) ==
    LET lo == 31 * h[2] + char
        hi == 31 * h[1] + (lo \div 65536)
    IN  <<hi % 65536, lo % 65536>>

RECURSIVE HashHalves(_, _)
HashHalves(text, i) ==
    IF i = 0 THEN <<0, 0>> ELSE HashStep(HashHalves(text, i - 1), text[i])

ToInt32(h) ==
    IF h[1] >= 32768
    THEN 0 - ((65535 - h[1]) * 65536 + (65535 - h[2])) - 1
    ELSE h[1] * 65536 + h[2]

computeHash(text) == ToInt32(HashHalves(text, Len(text)))

\* The hashes of the texts used below, computed once.
KnownTexts ==
    {EmptyString, TextAa, TextBB, TextC, TextSpace, TemplateCAa, TemplateLess}

HashTable == [t \in KnownTexts |-> computeHash(t)]

generateHash(text) ==
    IF text \in KnownTexts THEN HashTable[text] ELSE computeHash(text)

\* ------------------------------------------------------- textFormatting
\* React nodes: a string, a number, an array of nodes, or an element with
\* its type, its key and props.children (kind "null" stands for null and
\* undefined).
StringNode(str) == [kind |-> "string", value |-> str]
NumberNode(n) == [kind |-> "number", value |-> n]
ArrayNode(items) == [kind |-> "array", items |-> items]
Element(type, children) ==
    [kind |-> "element", type |-> type, key |-> Null, children |-> children]

\* String(n) for a non-negative integer, and parseInt of a digit string.
RECURSIVE ToDigits(_)
ToDigits(n) == IF n < 10 THEN <<48 + n>> ELSE Append(ToDigits(n \div 10), 48 + (n % 10))

RECURSIVE parseInt(_)
parseInt(digits) ==
    IF digits = <<>> THEN 0
    ELSE 10 * parseInt(SubSeq(digits, 1, Len(digits) - 1)) + (digits[Len(digits)] - 48)

\* `<${index}>${children}</${index}>`
Marker(index, children) ==
    <<60>> \o ToDigits(index) \o <<62>> \o children \o <<60, 47>> \o ToDigits(index)
        \o <<62>>

\* JavaScript truthiness of props.children.
TruthyNode(node) ==
    CASE node.kind = "null" -> FALSE
      [] node.kind = "number" -> node.value # 0
      [] node.kind = "string" -> node.value # <<>>
      [] OTHER -> TRUE

\* extractTextAndStyles: processNode, with text and styles as accumulator.
RECURSIVE processNode(_, _)
RECURSIVE processNodes(_, _)
processNode(acc, node) ==
    IF node.kind = "string"
    THEN [acc EXCEPT !.text = @ \o node.value]
    ELSE IF node.kind = "element"
    THEN LET children == node.children IN
         IF children.kind = "string"
         THEN [text |-> acc.text \o Marker(Len(acc.styles), children.value),
               styles |-> Append(acc.styles, [node |-> node, text |-> children.value])]
         ELSE IF children.kind = "array"
         THEN processNodes(acc, children.items)
         ELSE IF TruthyNode(children)
         THEN processNode(acc, children)
         ELSE acc
    ELSE acc

processNodes(acc, nodes) ==
    IF nodes = <<>> THEN acc
    ELSE processNodes(processNode(acc, Head(nodes)), Tail(nodes))

extractTextAndStyles(nodes) ==
    IF nodes.kind = "array"
    THEN processNodes([text |-> <<>>, styles |-> <<>>], nodes.items)
    ELSE processNode([text |-> <<>>, styles |-> <<>>], nodes)

\* The first index from i on that holds no digit (\d+ is greedy).
RECURSIVE digitsEnd(_, _)
digitsEnd(text, i) ==
    IF i <= Len(text) /\ text[i] \in 48..57 THEN digitsEnd(text, i + 1) ELSE i

\* The first index from i on that holds "<", or 0.
RECURSIVE nextOpen(_, _)
nextOpen(text, i) ==
    IF i > Len(text) THEN 0
    ELSE IF text[i] = 60 THEN i
    ELSE nextOpen(text, i + 1)

\* A match of /<\d+>[^<]*<\/\d+>/ that starts at index i: its opening
\* index digits, its content, its closing index digits and its last index;
\* last is 0 when there is no match at i.
matchAt(text, i) ==
    LET open == digitsEnd(text, i + 1)
        close == nextOpen(text, open + 1)
        last == digitsEnd(text, close + 2)
    IN  IF /\ i <= Len(text)
           /\ text[i] = 60
           /\ open > i + 1
           /\ open <= Len(text)
           /\ text[open] = 62
           /\ close # 0
           /\ close + 1 <= Len(text)
           /\ text[close + 1] = 47
           /\ last > close + 2
           /\ last <= Len(text)
           /\ text[last] = 62
        THEN [last |-> last,
              openIndex |-> SubSeq(text, i + 1, open - 1),
              content |-> SubSeq(text, open + 1, close - 1),
              closeIndex |-> SubSeq(text, close + 2, last - 1)]
        ELSE [last |-> 0, openIndex |-> <<>>, content |-> <<>>, closeIndex |-> <<>>]

\* translatedText.split(/(<\d+>[^<]*<\/\d+>)/g): plain parts and matches
\* alternate; start is where the current plain part began.
RECURSIVE splitMarkers(_, _, _)
splitMarkers(text, start, i) ==
    IF i > Len(text) THEN <<SubSeq(text, start, Len(text))>>
    ELSE IF matchAt(text, i).last # 0
    THEN <<SubSeq(text, start, i - 1), SubSeq(text, i, matchAt(text, i).last)>>
            \o splitMarkers(text, matchAt(text, i).last + 1, matchAt(text, i).last + 1)
    ELSE splitMarkers(text, start, i + 1)

\* part.match(/<(\d+)>([^<]*)<\/\1>/): the first match whose closing index
\* repeats the opening one, or last = 0.
RECURSIVE matchBackref(_, _)
matchBackref(part, i) ==
    IF i > Len(part) THEN matchAt(part, Len(part) + 1)
    ELSE IF matchAt(part, i).last # 0
            /\ matchAt(part, i).openIndex = matchAt(part, i).closeIndex
    THEN matchAt(part, i)
    ELSE matchBackref(part, i + 1)

\* React.cloneElement(style.node, {key: `styled-${index}`}, content)
cloneElement(node, index, content) ==
    [node EXCEPT !.key = <<115, 116, 121, 108, 101, 100, 45>> \o ToDigits(index),
                 !.children = StringNode(content)]

restorePartAnyClose(part, index, styles) ==
    LET match == matchAt(part, 1) IN
    IF match.last # 0 /\ parseInt(match.openIndex) + 1 <= Len(styles)
    THEN cloneElement(styles[parseInt(match.openIndex) + 1].node, index, match.content)
    ELSE StringNode(part)

\* restoreStyledText: what one part of the split becomes.
restorePart(part, index, styles) ==
    LET match == matchBackref(part, 1) IN
    IF match.last # 0 /\ parseInt(match.openIndex) + 1 <= Len(styles)
    THEN cloneElement(styles[parseInt(match.openIndex) + 1].node, index, match.content)
    ELSE StringNode(part)

restoreStyledText(translatedText, styles) ==
    LET parts == splitMarkers(translatedText, 1, 1)
    IN  ArrayNode([i \in 1..Len(parts) |-> restorePart(parts[i], i - 1, styles)])

\* The text a rendered node shows.
RECURSIVE visibleText(_)
RECURSIVE visibleTexts(_)
visibleText(node) ==
    CASE node.kind = "string" -> node.value
      [] node.kind = "number" -> ToDigits(node.value)
      [] node.kind = "array" -> visibleTexts(node.items)
      [] node.kind = "element" -> visibleText(node.children)
      [] OTHER -> <<>>

visibleTexts(nodes) ==
    IF nodes = <<>> THEN <<>> ELSE visibleText(Head(nodes)) \o visibleTexts(Tail(nodes))

\* --------------------------------------------------- TranslationService core
getCachedTranslationRaw(cache, text) == Get(cache, generateHash(text))

\* this.cache[targetLocale]?.[hashkey] || null
getCachedTranslation(cache, text) ==
    LET translation == Get(cache, generateHash(text))
    IN  IF Truthy(translation) THEN translation ELSE Null

\* The texts for which the cache check finds nothing (textsToTranslate).
TextsToTranslate(cache, texts) ==
    SelectSeq(texts, LAMBDA t : ~Truthy(getCachedTranslation(cache, t)))

\* The results collected by the cache check.
CachedResults(cache, texts) ==
    [t \in {x \in SeqToSet(texts) : Truthy(getCachedTranslation(cache, x))}
        |-> getCachedTranslation(cache, t)]

\* texts.map((text) => ({hashkey: generateHash(text), text, persist: true}))
BatchRequest(texts) ==
    [i \in 1..Len(texts) |->
        [hashkey |-> generateHash(texts[i]), text |-> texts[i], persist |-> TRUE]]

ValidTextsUnfiltered(items) == items

\* translateBatch: texts.filter(({text}) => text.trim() !== "")
ValidTexts(items) == SelectSeq(items, LAMBDA it : ~IsBlank(it.text))

ItemTexts(items) == {items[i].text : i \in 1..Len(items)}

\* translateBatch: textBasedResponse[text] = data[hashkey] || text
TextBasedResponse(items, data) ==
    [t \in ItemTexts(items) |->
        LET it == CHOOSE x \in SeqToSet(items) : x.text = t
        IN  IF Truthy(Get(data, it.hashkey)) THEN data[it.hashkey] ELSE t]

\* translateBatch, failure path: every text mapped to itself.
IdentityResponse(items) == [t \in ItemTexts(items) |-> t]

\* The bodies a 2xx /v1/translate response can carry for a request: a value
\* for any subset of the requested hash keys, each the API's translation of
\* a requested text with that key, or the empty string.
TranslateResponses(items) ==
    LET keys == {items[i].hashkey : i \in 1..Len(items)}
        vals(k) == {ApiTranslation(items[i].text) :
                        i \in {j \in 1..Len(items) : items[j].hashkey = k}}
                   \cup {EmptyString}
    IN  UNION {{d \in [S -> UNION {vals(k) : k \in S}] :
                    \A k \in S : d[k] \in vals(k)} : S \in SUBSET keys}

\* How a started network call can end: a 2xx response with a JSON body, a
\* non-2xx response (baseApi returns null), or fetch / response.json()
\* rejecting (baseApi rejects).
NetFailures == {"non2xx", "throws"}

Outcomes(items) ==
    {[kind |-> "ok", data |-> d] : d \in TranslateResponses(items)}
    \cup {[kind |-> f, data |-> EmptyMap] : f \in NetFailures}

\* translateBatch up to its await: the texts of the /v1/translate request
\* it issues, or none when it returns {} without a request.
translateBatchRequest(isInitialized, items) ==
    IF ~isInitialized \/ Len(items) = 0 THEN <<>> ELSE ValidTexts(items)

\* translateBatch after its await: how its promise settles (call records how
\* the network call ended).
translateBatchSettle(items, outcome) ==
    CASE outcome.kind = "ok" ->
            [status |-> "resolved", value |-> TextBasedResponse(items, outcome.data),
             call |-> "ok"]
      [] outcome.kind = "non2xx" ->
            [status |-> "resolved", value |-> IdentityResponse(items),
             call |-> "non2xx"]
      [] outcome.kind = "throws" ->
            [status |-> "rejected", value |-> EmptyMap, call |-> "throws"]

\* translateBatch / scheduleBatchTranslation / loadExistingTranslations:
\* the cache after the response was handled.
mergeResponseReplace(cache, outcome) ==
    IF outcome.kind = "ok" THEN outcome.data ELSE cache

mergeResponse(cache, outcome) ==
    IF outcome.kind = "ok" THEN Merge(cache, outcome.data) ELSE cache

\* ======================================================== one engine: state
\* One TranslationService instance used directly (TranslationProvider,
\* autoTranslate.init, tests), in a browser or in a server environment.

VARIABLES
    config,               \* this.config
    isSSR,                \* this.isSSR: typeof window === "undefined"
    cache,                \* this.cache[targetLocale]
    cacheLoaded,          \* this.cache[targetLocale] is defined
    storage,              \* this.storage is set
    pendingTranslations,  \* Map text -> persist, in insertion order
    batchTimeout,         \* this.batchTimeout is non-null
    timer,                \* ticks left on the live debounce timer, or NoTimer
    isInitialized,        \* this.isInitialized
    lastRefreshTime,      \* this.lastRefreshTime, 0 when undefined
    onTranslationsUpdated,\* the registered callback, 0 when null
    persisted,            \* localStorage item under this.cacheKey
    inflight,             \* network calls of this engine in flight
    requests,             \* the endpoint of every request this engine issued, in order
    step,                 \* the call made by the last step and what it returned
    notified,             \* the callback invocation made by the last step
    settled,              \* the translateBatch promise settled by the last step
    window,               \* texts missed since the last snapshot, in first-miss order
    sinceMiss             \* ticks elapsed since the last miss (capped)

engineVars == <<config, isSSR, cache, cacheLoaded, storage, pendingTranslations,
                batchTimeout, timer, isInitialized, lastRefreshTime,
                onTranslationsUpdated, persisted, inflight, requests, step,
                notified, settled, window, sinceMiss>>

\* The server regime: ServerTranslationCache's static maps, the
\* TranslationService instances it creates and the entry-point calls.
VARIABLES
    engines,        \* TranslationService instances, by instance number
    services,       \* ServerTranslationCache.services: cacheKey -> instance
    initPromises,   \* ServerTranslationCache.initPromises: keys present
    pendingBatches, \* ServerTranslationCache.pendingBatches: cacheKey -> descriptor
    batchSettled,   \* settled batch promises: batch number -> settlement
    nextBatch,      \* number of batch promises created so far
    callers,        \* the entry-point calls: caller -> coroutine state
    net,            \* network calls in flight
    sent            \* every network request issued so far, in order

serverVars == <<engines, services, initPromises, pendingBatches, batchSettled,
                nextBatch, callers, net, sent>>

vars == <<engineVars, serverVars>>

\* ================================================ configurations and inputs

Callers == 1..MaxCallers

\* Configurations: strings as sequences of tokens, "-" being its own token.
ConfigFr == [apiKey |-> <<"k">>, sourceLocale |-> <<"en">>, targetLocale |-> <<"fr">>]
ConfigSame == [apiKey |-> <<"k">>, sourceLocale |-> <<"en">>, targetLocale |-> <<"en">>]
ServerConfigs == {ConfigFr, ConfigSame}

\* The string lists handed to the entry points.
ServerInputs == {<<>>, <<TextAa>>, <<TextSpace, TextC>>}

\* `${config.apiKey}-${config.sourceLocale}-${config.targetLocale}`
cacheKey(cfg) ==
    cfg.apiKey \o <<"-">> \o cfg.sourceLocale \o <<"-">> \o cfg.targetLocale

\* config.sourceLocale === config.targetLocale
samePassThrough(cfg) == cfg.sourceLocale = cfg.targetLocale

\* The bodies a 2xx /v1/translations response can carry.
ExistingTranslations ==
    {EmptyMap, (generateHash(TextC) :> ApiTranslation(TextC))}

LoadOutcomes ==
    {[kind |-> "ok", data |-> d] : d \in ExistingTranslations}
    \cup {[kind |-> f, data |-> EmptyMap] : f \in NetFailures}

IdleCaller ==
    [pc |-> "idle", entry |-> "none", config |-> ConfigSame, texts |-> <<>>,
     todo |-> <<>>, results |-> EmptyMap, service |-> 0, batch |-> 0,
     joined |-> "none", render |-> <<>>, passes |-> <<>>, output |-> <<>>]

InitServer ==
    /\ engines = <<>>
    /\ services = EmptyMap
    /\ initPromises = {}
    /\ pendingBatches = EmptyMap
    /\ batchSettled = <<>>
    /\ nextBatch = 0
    /\ callers = [c \in Callers |-> IdleCaller]
    /\ net = {}
    /\ sent = <<>>

\* new TranslationService(config), in a server environment (isSSR).
newService(cfg) ==
    [config |-> cfg, cache |-> EmptyMap, isInitialized |-> FALSE,
     lastRefreshTime |-> 0]

Remove(map, key) == [k \in (DOMAIN map) \ {key} |-> map[k]]

\* Set.add for a Set kept in insertion order.
SetAdd(seq, x) == IF x \in SeqToSet(seq) THEN seq ELSE Append(seq, x)

\* ===================================================== one engine: operations
NoTimer == 0 - 1

MaxCallbacks == 1

\* Arguments of translate(text, persist).
TranslateInputs ==
    {<<TextAa, TRUE>>, <<TextAa, FALSE>>, <<TextC, TRUE>>, <<TextSpace, TRUE>>,
     <<EmptyString, TRUE>>}

\* Arguments of translateBatch (hash keys as the callers compute them).
BatchInputs == {<<>>, <<TextSpace, TextAa>>}

\* Arguments of preloadTranslations: text -> translation.
PreloadInputs == {(TextAa :> EmptyString)}

\* What localStorage holds under this.cacheKey, and how it behaves: "ok",
\* "corrupt" (the item is not JSON), "quota" (setItem throws) or "denied"
\* (getItem and setItem throw).
NoSnapshot ==
    [present |-> FALSE, hasData |-> FALSE, data |-> EmptyMap, lastRefreshTime |-> 0,
     health |-> "ok"]

SnapshotUnstamped(loaded, data, refreshTime) ==
    [present |-> TRUE, hasData |-> loaded, data |-> data, lastRefreshTime |-> 0,
     health |-> "ok"]

\* JSON.stringify({timestamp, data: this.cache[targetLocale], lastRefreshTime})
Snapshot(loaded, data, refreshTime) ==
    [present |-> TRUE, hasData |-> loaded, data |-> data, lastRefreshTime |-> refreshTime,
     health |-> "ok"]

\* localStorage.setItem throws / localStorage.getItem throws.
WriteThrows(store) == store.health \in {"quota", "denied"}
ReadThrows(store) == store.health = "denied"

setItemStamped(store, snapshot) == [snapshot EXCEPT !.lastRefreshTime = MaxStamp]

\* storage.setItem(this.cacheKey, snapshot): the item afterwards.
setItem(store, snapshot) == IF WriteThrows(store) THEN store ELSE snapshot

ParsesNever(store) == FALSE

\* JSON.parse(cachedData) succeeds.
Parses(store) == store.present /\ store.health # "corrupt"

\* A snapshot an earlier session left in localStorage.
StoredSnapshot == Snapshot(TRUE, (generateHash(TextC) :> ApiTranslation(TextC)), 1)

\* How an engine is constructed: its configuration, whether it runs in a
\* server environment, and what localStorage holds under its cacheKey.
EngineSetups ==
    {<<ConfigFr, TRUE, NoSnapshot>>, <<ConfigFr, FALSE, NoSnapshot>>,
     <<ConfigFr, FALSE, StoredSnapshot>>, <<ConfigSame, TRUE, NoSnapshot>>}

NoStep ==
    [op |-> "none", via |-> "engine", text |-> EmptyString, persist |-> TRUE,
     enqueued |-> FALSE, merged |-> FALSE, ret |-> Null]
NoNotification == [callback |-> 0, payload |-> EmptyMap]
NoSettlement ==
    [promise |-> "none", status |-> "none", value |-> EmptyMap, call |-> "none",
     texts |-> <<>>]

Label(op) == [NoStep EXCEPT !.op = op]

\* The state after "new TranslationService(config)".
EngineFrom(setups) ==
    /\ \E setup \in setups :
          /\ config = setup[1]
          /\ isSSR = setup[2]
          /\ persisted = setup[3]
    /\ cache = EmptyMap
    /\ cacheLoaded = FALSE
    /\ storage = FALSE
    /\ pendingTranslations = <<>>
    /\ batchTimeout = FALSE
    /\ timer = NoTimer
    /\ isInitialized = FALSE
    /\ lastRefreshTime = 0
    /\ onTranslationsUpdated = 0
    /\ inflight = {}
    /\ requests = <<>>
    /\ step = NoStep
    /\ notified = NoNotification
    /\ settled = NoSettlement
    /\ window = <<>>
    /\ sinceMiss = 0

InitEngine == EngineFrom(EngineSetups)

\* The engine variables while only the server regime runs.
UnusedEngine ==
    /\ config = ConfigFr
    /\ isSSR = TRUE
    /\ cache = EmptyMap
    /\ cacheLoaded = FALSE
    /\ storage = FALSE
    /\ pendingTranslations = <<>>
    /\ batchTimeout = FALSE
    /\ timer = NoTimer
    /\ isInitialized = FALSE
    /\ lastRefreshTime = 0
    /\ onTranslationsUpdated = 0
    /\ persisted = NoSnapshot
    /\ inflight = {}
    /\ requests = <<>>
    /\ step = NoStep
    /\ notified = NoNotification
    /\ settled = NoSettlement
    /\ window = <<>>
    /\ sinceMiss = 0

PendingTexts(pending) == [i \in 1..Len(pending) |-> pending[i].text]

pendingSetJoin(pending, text, persist) ==
    IF \E req \in inflight : text \in SeqToSet(req.texts)
    THEN pending
    ELSE Append(pending, [text |-> text, persist |-> persist])

\* this.pendingTranslations.set(text, persist): a Map keeps the position of
\* a key that is already present.
pendingSet(pending, text, persist) ==
    IF text \in SeqToSet(PendingTexts(pending))
    THEN [i \in 1..Len(pending) |->
            IF pending[i].text = text THEN [text |-> text, persist |-> persist]
            ELSE pending[i]]
    ELSE Append(pending, [text |-> text, persist |-> persist])

\* scheduleBatchTranslation's guards: it returns without a timer in a server
\* environment and when no storage adapter is set.
Schedules(ssr, stor) == ~ssr /\ stor

scheduleBatchTranslationJoin(ssr, stor, tmr) ==
    IF Schedules(ssr, stor) /\ ~(\E req \in inflight : req.origin = "debounce")
    THEN DebounceTicks ELSE tmr

scheduleBatchTranslationNoReset(ssr, stor, tmr) ==
    IF Schedules(ssr, stor) /\ tmr = NoTimer THEN DebounceTicks ELSE tmr

\* scheduleBatchTranslation: clearTimeout(this.batchTimeout) and a new
\* setTimeout(..., debounceTime); the value of timer afterwards.
scheduleBatchTranslation(ssr, stor, tmr) ==
    IF Schedules(ssr, stor) THEN DebounceTicks ELSE tmr

\* The timer callback: allTexts built from the pending map.
allTexts(pending) ==
    [i \in 1..Len(pending) |->
        [hashkey |-> generateHash(pending[i].text), text |-> pending[i].text,
         persist |-> pending[i].persist]]

\* this.onTranslationsUpdated(this.cache[targetLocale] || {}), if registered.
notify(callback, before, after) ==
    IF callback = 0 THEN NoNotification ELSE [callback |-> callback, payload |-> after]

\* Requests issued so far plus the one a live debounce timer will issue.
Reserved ==
    Len(requests) + (IF timer # NoTimer /\ pendingTranslations # <<>> THEN 1 ELSE 0)

Request(endpoint, origin, items, texts, refreshTime) ==
    [id |-> Len(requests) + 1, endpoint |-> endpoint, origin |-> origin,
     items |-> items, texts |-> texts, lastRefreshTime |-> refreshTime]

Issue(req) ==
    /\ inflight' = inflight \cup {req}
    /\ requests' = Append(requests, req.endpoint)

Quiet == /\ notified' = NoNotification
         /\ settled' = NoSettlement

\* init(), up to the fetch of loadExistingTranslations.  Called on a fresh
\* engine this is also autoTranslate.init(config).
initSettleNoCatch(ssr, thrown) ==
    [status |-> IF thrown THEN "rejected" ELSE "resolved",
     isInitialized |-> ~thrown \/ ~ssr]

\* try { ... } catch (error) { this.isInitialized = true }: how init()
\* settles and the flag it leaves, whether or not something threw.
initSettle(ssr, thrown) == [status |-> "resolved", isInitialized |-> TRUE]

InitSettlement(status, call) ==
    [promise |-> "init", status |-> status, value |-> EmptyMap, call |-> call,
     texts |-> <<>>]

init ==
    /\ isInitialized \/ Reserved < MaxNetCalls
    /\ step' = Label("init")
    /\ notified' = NoNotification
    /\ IF isInitialized
       THEN /\ settled' = InitSettlement("resolved", "none")
            /\ UNCHANGED <<cache, cacheLoaded, storage, isInitialized, lastRefreshTime,
                           inflight, requests>>
       ELSE IF isSSR
       THEN /\ Issue(Request("v1/translations", "init", <<>>, <<>>, lastRefreshTime))
            /\ settled' = NoSettlement
            /\ UNCHANGED <<cache, cacheLoaded, storage, isInitialized, lastRefreshTime>>
       ELSE IF ReadThrows(persisted)
       THEN /\ storage' = TRUE
            /\ isInitialized' = initSettle(isSSR, TRUE).isInitialized
            /\ settled' = InitSettlement(initSettle(isSSR, TRUE).status, "none")
            /\ UNCHANGED <<cache, cacheLoaded, lastRefreshTime, inflight, requests>>
       ELSE /\ storage' = TRUE
            /\ IF Parses(persisted)
               THEN /\ cache' = persisted.data
                    /\ cacheLoaded' = persisted.hasData
                    /\ lastRefreshTime' = persisted.lastRefreshTime
               ELSE UNCHANGED <<cache, cacheLoaded, lastRefreshTime>>
            /\ isInitialized' = TRUE
            /\ settled' = NoSettlement
            /\ Issue(Request("v1/translations", "init", <<>>, <<>>, lastRefreshTime'))
    /\ UNCHANGED <<config, isSSR, pendingTranslations, batchTimeout, timer,
                   onTranslationsUpdated, persisted, window, sinceMiss, serverVars>>

\* The /v1/translations call of init() completes: loadExistingTranslations
\* merges a 2xx body, sets the watermark and notifies; init then marks the
\* engine initialized (server) or writes the snapshot (browser); a rejection
\* is swallowed by init's catch.
InitLoaded ==
    \E req \in inflight, outcome \in LoadOutcomes :
        /\ req.origin = "init"
        /\ inflight' = inflight \ {req}
        /\ step' = [Label("initLoaded") EXCEPT !.ret = outcome.data,
                                              !.merged = (outcome.kind = "ok")]
        /\ cache' = mergeResponse(cache, outcome)
        /\ IF outcome.kind = "ok"
           THEN /\ cacheLoaded' = TRUE
                /\ lastRefreshTime' = MaxStamp
                /\ notified' = notify(onTranslationsUpdated, cache, cache')
           ELSE /\ notified' = NoNotification
                /\ UNCHANGED <<cacheLoaded, lastRefreshTime>>
        /\ IF ~isSSR /\ outcome.kind # "throws"
           THEN persisted' = setItem(persisted,
                                     Snapshot(cacheLoaded', cache', lastRefreshTime'))
           ELSE UNCHANGED persisted
        /\ LET thrown == outcome.kind = "throws" \/ (~isSSR /\ WriteThrows(persisted))
           IN  /\ isInitialized' = initSettle(isSSR, thrown).isInitialized
               /\ settled' = InitSettlement(initSettle(isSSR, thrown).status,
                                            outcome.kind)
        /\ UNCHANGED <<config, isSSR, storage, pendingTranslations, batchTimeout, timer,
                       onTranslationsUpdated, requests, window, sinceMiss, serverVars>>

\* preloadTranslations: the text-keyed argument as hashkey-keyed entries.
preloadEntries(translations) ==
    [k \in {generateHash(t) : t \in DOMAIN translations} |->
        translations[CHOOSE t \in DOMAIN translations : generateHash(t) = k]]

\* preloadTranslations(translations)
preloadTranslations ==
    \E translations \in PreloadInputs :
        /\ step' = [Label("preloadTranslations") EXCEPT
                        !.ret = preloadEntries(translations)]
        /\ Quiet
        /\ cacheLoaded' = TRUE
        /\ cache' = Merge(cache, preloadEntries(translations))
        /\ isInitialized' = TRUE
        /\ UNCHANGED <<config, isSSR, storage, pendingTranslations, batchTimeout, timer,
                       lastRefreshTime, onTranslationsUpdated, persisted, inflight,
                       requests, window, sinceMiss, serverVars>>

\* translate(text, persist), called directly (via = "engine") or by the
\* provider's translate function; mayStartCycle bounds the number of
\* debounce cycles explored.
translateCall(text, persist, via, mayStartCycle) ==
    LET cachedTranslation == getCachedTranslation(cache, text)
        miss == /\ text # EmptyString
                /\ isInitialized
                /\ ~IsBlank(text)
                /\ ~Truthy(cachedTranslation)
    IN  /\ Quiet
        /\ IF miss
           THEN /\ Schedules(isSSR, storage) => (timer # NoTimer \/ mayStartCycle)
                /\ pendingTranslations' = pendingSet(pendingTranslations, text, persist)
                /\ timer' = scheduleBatchTranslation(isSSR, storage, timer)
                /\ batchTimeout' = (batchTimeout \/ Schedules(isSSR, storage))
                /\ window' = SetAdd(window, text)
                /\ sinceMiss' = 0
                /\ step' = [op |-> "translate", via |-> via, text |-> text,
                            persist |-> persist, enqueued |-> TRUE, merged |-> FALSE,
                            ret |-> text]
           ELSE /\ step' = [op |-> "translate", via |-> via, text |-> text,
                            persist |-> persist, enqueued |-> FALSE,
                            merged |-> FALSE,
                            ret |-> IF text # EmptyString /\ isInitialized
                                       /\ ~IsBlank(text)
                                    THEN cachedTranslation ELSE text]
                /\ UNCHANGED <<pendingTranslations, timer, batchTimeout, window,
                               sinceMiss>>
        /\ UNCHANGED <<config, isSSR, cache, cacheLoaded, storage, isInitialized,
                       lastRefreshTime, onTranslationsUpdated, persisted, inflight,
                       requests, serverVars>>

\* translate(text, persist) called on the engine.
translate ==
    \E input \in TranslateInputs :
        translateCall(input[1], input[2], "engine", Reserved < MaxNetCalls)

\* One tick of the clock while a debounce timer is running.
Tick ==
    /\ timer > 0
    /\ timer' = timer - 1
    /\ sinceMiss' = IF sinceMiss < DebounceTicks THEN sinceMiss + 1 ELSE sinceMiss
    /\ step' = Label("tick")
    /\ Quiet
    /\ UNCHANGED <<config, isSSR, cache, cacheLoaded, storage, pendingTranslations,
                   batchTimeout, isInitialized, lastRefreshTime, onTranslationsUpdated,
                   persisted, inflight, requests, window, serverVars>>

\* The debounce timer fires: the pending map is snapshotted and cleared and,
\* if the snapshot is not empty, one /v1/translate request is issued.
DebounceFire ==
    /\ timer = 0
    /\ timer' = NoTimer
    /\ pendingTranslations' = <<>>
    /\ window' = <<>>
    /\ step' = Label("debounceFire")
    /\ Quiet
    /\ IF Len(pendingTranslations) > 0
       THEN Issue(Request("v1/translate", "debounce", allTexts(pendingTranslations),
                          PendingTexts(pendingTranslations), 0))
       ELSE UNCHANGED <<inflight, requests>>
    /\ UNCHANGED <<config, isSSR, cache, cacheLoaded, storage, batchTimeout,
                   isInitialized, lastRefreshTime, onTranslationsUpdated, persisted,
                   sinceMiss, serverVars>>

\* The /v1/translate call of the debounced batch completes: a 2xx body is
\* merged into the cache, the subscriber is called, the snapshot is written.
DebounceResponse ==
    \E req \in inflight :
        /\ req.origin = "debounce"
        /\ \E outcome \in Outcomes(req.items) :
            /\ cache' = mergeResponse(cache, outcome)
            /\ step' = [Label("debounceResponse") EXCEPT
                            !.ret = outcome.data, !.merged = (outcome.kind = "ok")]
            /\ IF outcome.kind = "ok"
               THEN /\ cacheLoaded' = TRUE
                    /\ notified' = notify(onTranslationsUpdated, cache, cache')
                    /\ IF storage
                       THEN persisted' = setItem(persisted,
                                                 Snapshot(TRUE, cache', lastRefreshTime))
                       ELSE UNCHANGED persisted
               ELSE /\ notified' = NoNotification
                    /\ UNCHANGED <<cacheLoaded, persisted>>
        /\ inflight' = inflight \ {req}
        /\ settled' = NoSettlement
        /\ UNCHANGED <<config, isSSR, storage, pendingTranslations, batchTimeout, timer,
                       isInitialized, lastRefreshTime, onTranslationsUpdated, requests,
                       window, sinceMiss, serverVars>>

\* translateBatch(texts), up to its await.
translateBatch ==
    \E texts \in BatchInputs :
        LET items == BatchRequest(texts)
            valid == translateBatchRequest(isInitialized, items)
        IN  /\ Reserved < MaxNetCalls
            /\ step' = Label("translateBatch")
            /\ notified' = NoNotification
            /\ IF Len(valid) = 0
               THEN /\ settled' = [promise |-> "translateBatch",
                                   status |-> "resolved", value |-> EmptyMap,
                                   call |-> "none", texts |-> texts]
                    /\ UNCHANGED <<inflight, requests>>
               ELSE /\ settled' = NoSettlement
                    /\ Issue(Request("v1/translate", "translateBatch", valid, texts, 0))
            /\ UNCHANGED <<config, isSSR, cache, cacheLoaded, storage, pendingTranslations,
                           batchTimeout, timer, isInitialized, lastRefreshTime,
                           onTranslationsUpdated, persisted, window, sinceMiss,
                           serverVars>>

\* The /v1/translate call of translateBatch completes and its promise settles.
TranslateBatchResponse ==
    \E req \in inflight :
        /\ req.origin = "translateBatch"
        /\ \E outcome \in Outcomes(req.items) :
            /\ cache' = mergeResponse(cache, outcome)
            /\ cacheLoaded' = (cacheLoaded \/ outcome.kind = "ok")
            /\ step' = [Label("translateBatchResponse") EXCEPT
                            !.ret = outcome.data, !.merged = (outcome.kind = "ok")]
            /\ settled' = [promise |-> "translateBatch",
                           status |-> translateBatchSettle(BatchRequest(req.texts), outcome).status,
                           value |-> translateBatchSettle(BatchRequest(req.texts), outcome).value,
                           call |-> outcome.kind, texts |-> req.texts]
        /\ inflight' = inflight \ {req}
        /\ notified' = NoNotification
        /\ UNCHANGED <<config, isSSR, storage, pendingTranslations, batchTimeout, timer,
                       isInitialized, lastRefreshTime, onTranslationsUpdated, persisted,
                       requests, window, sinceMiss, serverVars>>

\* onUpdate(callback): callbacks are numbered in the order of registration.
onUpdate ==
    /\ onTranslationsUpdated < MaxCallbacks
    /\ onTranslationsUpdated' = onTranslationsUpdated + 1
    /\ notified' = IF cacheLoaded
                   THEN [callback |-> onTranslationsUpdated', payload |-> cache]
                   ELSE NoNotification
    /\ settled' = NoSettlement
    /\ step' = Label("onUpdate")
    /\ UNCHANGED <<config, isSSR, cache, cacheLoaded, storage, pendingTranslations,
                   batchTimeout, timer, isInitialized, lastRefreshTime, persisted,
                   inflight, requests, window, sinceMiss, serverVars>>

clearTimeoutLate(handle, tmr) == IF handle /\ tmr > 0 THEN NoTimer ELSE tmr

\* if (this.batchTimeout) clearTimeout(this.batchTimeout): the timer
\* afterwards.
clearTimeout(handle, tmr) == IF handle THEN NoTimer ELSE tmr

\* cleanup()
cleanup ==
    /\ step' = Label("cleanup")
    /\ Quiet
    /\ timer' = clearTimeout(batchTimeout, timer)
    /\ batchTimeout' = FALSE
    /\ UNCHANGED <<config, isSSR, cache, cacheLoaded, storage, pendingTranslations,
                   isInitialized, lastRefreshTime, onTranslationsUpdated, persisted,
                   inflight, requests, window, sinceMiss, serverVars>>

Init == InitEngine /\ InitServer

Next ==
    \/ init
    \/ InitLoaded
    \/ preloadTranslations
    \/ translate
    \/ Tick
    \/ DebounceFire
    \/ DebounceResponse
    \/ translateBatch
    \/ TranslateBatchResponse
    \/ onUpdate
    \/ cleanup

Spec == Init /\ [][Next]_vars

\* ================================================== lookups on an engine
\* Arguments of getCachedTranslation.
LookupInputs == {TextAa, TextBB, TextC}

\* getCachedTranslation(text) called on the engine: it reads the cache and
\* assigns nothing.
getCachedTranslationCall ==
    \E text \in LookupInputs :
        /\ Quiet
        /\ step' = [Label("getCachedTranslation") EXCEPT
                        !.text = text, !.ret = getCachedTranslation(cache, text)]
        /\ UNCHANGED <<config, isSSR, cache, cacheLoaded, storage, pendingTranslations,
                       batchTimeout, timer, isInitialized, lastRefreshTime,
                       onTranslationsUpdated, persisted, inflight, requests, window,
                       sinceMiss, serverVars>>

NextLookup ==
    \/ init
    \/ InitLoaded
    \/ preloadTranslations
    \/ translate
    \/ Tick
    \/ DebounceFire
    \/ DebounceResponse
    \/ getCachedTranslationCall

SpecLookup == Init /\ [][NextLookup]_vars

\* ============================================ TranslationProvider on an engine
\* A browser application: TranslationProvider (without initialTranslations)
\* creates the engine, its effect calls init() and onUpdate(), its cleanup
\* calls cleanup(), and the UI calls the translate function it provides.

\* isTranslationPending(text)
isTranslationPending(pending, text) == text \in SeqToSet(PendingTexts(pending))

\* The provider's loading state: true until init() has settled.
loading == ~isInitialized \/ \E req \in inflight : req.origin = "init"

\* Arguments of the provider's translate(text, persist).
ProviderInputs ==
    {<<TextAa, TRUE>>, <<TextC, TRUE>>, <<TextSpace, TRUE>>, <<EmptyString, TRUE>>}

\* /v1/translate requests issued so far.
TranslateCalls == Len(SelectSeq(requests, LAMBDA e : e = "v1/translate"))

\* The provider's translate returns without calling the engine.
providerReturn(text, persist, ret) ==
    /\ step' = [op |-> "providerTranslate", via |-> "provider", text |-> text,
                persist |-> persist, enqueued |-> FALSE, merged |-> FALSE,
                ret |-> ret]
    /\ Quiet
    /\ UNCHANGED <<config, isSSR, cache, cacheLoaded, storage, pendingTranslations,
                   batchTimeout, timer, isInitialized, lastRefreshTime,
                   onTranslationsUpdated, persisted, inflight, requests, window,
                   sinceMiss, serverVars>>

\* The translate function TranslationProvider hands to the UI (also t() of
\* useAutoTranslate).
providerTranslateFrom(inputs) ==
    \E input \in inputs :
        LET text == input[1]
            persist == input[2]
            cachedTranslation == getCachedTranslation(cache, text)
        IN  IF text = EmptyString \/ loading
            THEN providerReturn(text, persist, text)
            ELSE IF samePassThrough(config)
            THEN providerReturn(text, persist, text)
            ELSE IF Truthy(cachedTranslation)
            THEN providerReturn(text, persist, cachedTranslation)
            ELSE IF ~isTranslationPending(pendingTranslations, text)
            THEN translateCall(text, persist, "provider", TranslateCalls < MaxNetCalls)
            ELSE providerReturn(text, persist, text)

providerTranslate == providerTranslateFrom(ProviderInputs)

ClientSetups == {<<ConfigFr, FALSE, NoSnapshot>>, <<ConfigFr, FALSE, StoredSnapshot>>}

InitClient ==
    /\ InitEngine
    /\ <<config, isSSR, persisted>> \in ClientSetups
    /\ InitServer

NextClient ==
    \/ init
    \/ InitLoaded
    \/ onUpdate
    \/ providerTranslate
    \/ Tick
    \/ DebounceFire
    \/ DebounceResponse
    \/ cleanup

SpecClient == InitClient /\ [][NextClient]_vars

\* ======================================== an engine on an unreliable storage
\* Items an earlier session, or something else, left under the cacheKey of
\* a localStorage that misbehaves.
DeniedStorage == [NoSnapshot EXCEPT !.health = "denied"]
CorruptItem == [NoSnapshot EXCEPT !.present = TRUE, !.health = "corrupt"]
FullStorage == [StoredSnapshot EXCEPT !.health = "quota"]

StorageSetups ==
    {<<ConfigFr, TRUE, NoSnapshot>>, <<ConfigFr, FALSE, DeniedStorage>>,
     <<ConfigFr, FALSE, CorruptItem>>, <<ConfigFr, FALSE, FullStorage>>}

InitStorage == EngineFrom(StorageSetups) /\ InitServer

NextStorage ==
    \/ init
    \/ InitLoaded
    \/ translate
    \/ Tick
    \/ DebounceFire
    \/ DebounceResponse
    \/ onUpdate

SpecStorage == InitStorage /\ [][NextStorage]_vars

\* ============================================================ engine: claims

\* C4 (as stated): whenever the network call of translateBatch fails in any
\* way, the promise resolves with every input text mapped to itself.
C4_FailOpen ==
    settled.call \in NetFailures =>
        /\ settled.status = "resolved"
        /\ settled.value = IdentityMap(settled.texts)

\* C5 (as stated): with sourceLocale = targetLocale the engine never issues
\* a request, translate returns its argument and translateBatch returns
\* each input text unchanged.
C5_EnginePassThrough ==
    samePassThrough(config) =>
        /\ requests = <<>>
        /\ step.op = "translate" => step.ret = step.text
        /\ settled.status # "none" =>
              /\ settled.status = "resolved"
              /\ \A t \in DOMAIN settled.value : settled.value[t] = t

\* C8 (as stated): whenever translate() adds a text to the pending set, a
\* debounced batch that will snapshot and clear the set is scheduled.
C8_PendingScheduled ==
    [][(step'.op = "translate" /\ step'.enqueued) => timer' # NoTimer]_vars

\* C9 (as stated): translate returns the cached translation if one is
\* present; for empty or blank text and on an uninitialized engine it returns
\* the text and touches neither the pending set nor the timer; otherwise it
\* adds the text to the pending set, (re)schedules the batch and returns
\* the text.
C9_TranslateContract ==
    [][step'.op = "translate" =>
        LET text == step'.text
            cached == getCachedTranslation(cache, text)
        IN  IF text = EmptyString \/ IsBlank(text) \/ ~isInitialized
            THEN /\ step'.ret = text
                 /\ UNCHANGED <<pendingTranslations, timer, batchTimeout>>
            ELSE IF Truthy(cached)
            THEN /\ step'.ret = cached
                 /\ UNCHANGED <<pendingTranslations, timer, batchTimeout>>
            ELSE /\ step'.ret = text
                 /\ text \in SeqToSet(PendingTexts(pendingTranslations'))
                 /\ timer' = DebounceTicks]_vars

NoDuplicates(seq) == \A i, j \in 1..Len(seq) : seq[i] = seq[j] => i = j

\* C10: when the debounce timer fires on a non-empty pending set, the delay
\* has elapsed since the last miss and exactly one /v1/translate request is
\* issued, carrying the texts missed since the previous snapshot in
\* first-miss order, each once; debounced requests are issued by no other
\* step; a response is merged whole in the step that calls the subscriber,
\* which is handed the merged cache.
C10_DebounceWindow ==
    [][/\ (step'.op = "debounceFire" /\ pendingTranslations # <<>>) =>
            /\ ~isSSR
            /\ sinceMiss >= DebounceTicks
            /\ Len(requests') = Len(requests) + 1
            /\ pendingTranslations' = <<>>
            /\ \E req \in inflight' :
                  /\ req \notin inflight
                  /\ inflight' = inflight \cup {req}
                  /\ req.endpoint = "v1/translate"
                  /\ [i \in 1..Len(req.items) |-> req.items[i].text] = window
                  /\ NoDuplicates(window)
       /\ (\E req \in inflight' \ inflight : req.origin = "debounce") =>
            (step'.op = "debounceFire" /\ Cardinality(inflight' \ inflight) = 1)
       /\ (step'.op = "debounceResponse" /\ cache' # cache) =>
            /\ cache' = Merge(cache, step'.ret)
            /\ onTranslationsUpdated # 0 =>
                  (notified'.callback = onTranslationsUpdated
                   /\ notified'.payload = cache')]_vars

\* Two misses of one window have just left in one request, in miss order,
\* with a subscriber registered.
C10_Witness ==
    /\ step.op = "debounceFire"
    /\ onTranslationsUpdated # 0
    /\ \E req \in inflight :
          /\ req.origin = "debounce"
          /\ req.id = Len(requests)
          /\ req.texts = <<TextC, TextAa>>

\* C11: a translate() miss made while a debounced batch is in flight leaves
\* the requests in flight as they are, puts the text into the pending set
\* and starts a fresh debounce delay; a request in flight disappears only
\* when its response is handled; and when a timer fires, the pending texts
\* leave in a new request beside the ones in flight.
C11_FreshCycle ==
    [][/\ (/\ step'.op = "translate"
           /\ step'.enqueued
           /\ \E req \in inflight : req.origin = "debounce") =>
               /\ inflight' = inflight
               /\ isTranslationPending(pendingTranslations', step'.text)
               /\ timer' = DebounceTicks
       /\ \A req \in inflight \ inflight' :
               step'.op \in {"debounceResponse", "initLoaded", "translateBatchResponse"}
       /\ (step'.op = "debounceFire" /\ pendingTranslations # <<>>) =>
               /\ inflight \subseteq inflight'
               /\ \E req \in inflight' \ inflight :
                     req.texts = PendingTexts(pendingTranslations)]_vars

\* "C" was missed while the batch carrying "Aa" was in flight and has left
\* in a request of its own.
C11_Witness ==
    /\ step.op = "debounceFire"
    /\ \E first, second \in inflight :
          /\ first.origin = "debounce"
          /\ second.origin = "debounce"
          /\ first.id < second.id
          /\ first.texts = <<TextAa>>
          /\ second.texts = <<TextC>>

MergeSteps ==
    {"initLoaded", "debounceResponse", "translateBatchResponse", "preloadTranslations"}

\* C12: no step removes a cache entry or un-defines the target locale's
\* sub-map, and an entry changes its value only in a step that merges a
\* response (or preloaded entries) holding that key, to the merged value.
C12_CacheMonotone ==
    [][/\ cacheLoaded => cacheLoaded'
       /\ \A k \in DOMAIN cache :
             /\ k \in DOMAIN cache'
             /\ cache'[k] # cache[k] =>
                   /\ step'.op \in MergeSteps
                   /\ k \in DOMAIN step'.ret
                   /\ cache'[k] = step'.ret[k]]_vars

\* A response without the key of "C" has just been merged into a cache that
\* held, and still holds, the translation of "C".
C12_Witness ==
    /\ step.op \in {"debounceResponse", "translateBatchResponse"}
    /\ generateHash(TextAa) \in DOMAIN step.ret
    /\ generateHash(TextC) \notin DOMAIN step.ret
    /\ Get(cache, generateHash(TextC)) = ApiTranslation(TextC)

ResponseSteps == {"initLoaded", "debounceResponse", "translateBatchResponse"}

\* C13: whenever a network response is merged into the cache (init refresh,
\* debounced batch, translateBatch) the callback of the most recent onUpdate
\* call is invoked with the post-merge cache, and onUpdate invokes the new
\* callback at once when cache contents exist.
C13_UpdateNotification ==
    [][/\ (step'.op \in ResponseSteps /\ step'.merged /\ onTranslationsUpdated # 0)
            => notified' = [callback |-> onTranslationsUpdated, payload |-> cache']
       /\ (step'.op = "onUpdate" /\ cacheLoaded)
            => notified' = [callback |-> onTranslationsUpdated', payload |-> cache]]_vars

\* C14: on a browser engine with a storage adapter, every merge of a network
\* response (init refresh, debounced batch, translateBatch) is followed by a
\* snapshot write, after which the snapshot's data is the in-memory cache
\* and its lastRefreshTime the engine's watermark.
C14_Persistence ==
    [][(step'.op \in ResponseSteps /\ step'.merged /\ ~isSSR /\ storage)
            => persisted' = Snapshot(cacheLoaded', cache', lastRefreshTime')]_vars

\* C15: init() never rejects: whatever the network and the storage do, its
\* promise resolves with isInitialized true; init() on an initialized engine
\* resolves at once, issues no request and changes no state.
C15_InitNeverRejects ==
    [][/\ settled'.promise = "init" =>
             /\ settled'.status = "resolved"
             /\ isInitialized'
       /\ (step'.op = "init" /\ isInitialized) =>
             /\ settled'.promise = "init"
             /\ UNCHANGED <<config, isSSR, cache, cacheLoaded, storage,
                            pendingTranslations, batchTimeout, timer, isInitialized,
                            lastRefreshTime, onTranslationsUpdated, persisted,
                            inflight, requests>>]_vars

\* init() has just settled on a browser engine whose refresh succeeded and
\* whose snapshot write threw.
C15_Witness ==
    /\ settled.promise = "init"
    /\ step.op = "initLoaded"
    /\ settled.call = "ok"
    /\ ~isSSR
    /\ WriteThrows(persisted)

RefreshInFlight == \E req \in inflight : req.origin = "init"

\* C16: on a browser engine init() puts the persisted snapshot into the
\* cache and sets isInitialized in the step that issues the /v1/translations
\* refresh; while the refresh is in flight translate() returns the
\* (non-empty) translation of an entry that is in the cache as the snapshot
\* holds it; a failed refresh leaves the cache as it was and init resolves.
C16_HydrateFirst ==
    [][/\ (step'.op = "init" /\ ~isInitialized /\ ~isSSR /\ persisted.present
              /\ persisted.health \in {"ok", "quota"})
            => /\ cache' = persisted.data
               /\ isInitialized'
               /\ RefreshInFlight'
       /\ (step'.op = "translate" /\ ~isSSR /\ RefreshInFlight
              /\ persisted.health \in {"ok", "quota"}
              /\ generateHash(step'.text) \in DOMAIN persisted.data
              /\ Truthy(persisted.data[generateHash(step'.text)])
              /\ Get(cache, generateHash(step'.text))
                    = persisted.data[generateHash(step'.text)])
            => /\ step'.ret = persisted.data[generateHash(step'.text)]
               /\ ~step'.enqueued
       /\ (step'.op = "initLoaded" /\ ~step'.merged)
            => /\ cache' = cache
               /\ settled'.status = "resolved"]_vars

\* translate("C") has just returned the hydrated translation while the
\* refresh of init() was in flight.
C16_Witness ==
    /\ step.op = "translate"
    /\ step.text = TextC
    /\ step.ret = ApiTranslation(TextC)
    /\ RefreshInFlight
    /\ ~isSSR
    /\ cache = StoredSnapshot.data

EngineState ==
    <<config, isSSR, cache, cacheLoaded, storage, pendingTranslations, batchTimeout,
      timer, isInitialized, lastRefreshTime, onTranslationsUpdated, persisted,
      inflight, requests>>

\* C17: cleanup() leaves no debounce timer and issues no request; a second
\* cleanup() changes nothing; cleanup() leaves the requests in flight alone,
\* and a response that arrives afterwards is still merged, notified and
\* persisted.
C17_Cleanup ==
    [][/\ step'.op = "cleanup" =>
             /\ timer' = NoTimer
             /\ ~batchTimeout'
             /\ UNCHANGED <<inflight, requests, cache, cacheLoaded,
                            pendingTranslations, persisted>>
       /\ (step'.op = "cleanup" /\ step.op = "cleanup") => UNCHANGED EngineState
       /\ (step'.op = "debounceResponse" /\ step'.merged /\ ~batchTimeout) =>
             /\ \A k \in DOMAIN step'.ret : Get(cache', k) = step'.ret[k]
             /\ notified' = notify(onTranslationsUpdated, cache, cache')
             /\ persisted' = setItem(persisted, Snapshot(TRUE, cache', lastRefreshTime))
       /\ timer = NoTimer => step'.op # "debounceFire"]_vars

\* cleanup() ran while a timer was counting down, so that timer never fires.
C17_WitnessCancel ==
    /\ step.op = "cleanup"
    /\ timer = NoTimer
    /\ pendingTranslations # <<>>

\* The response of a debounced batch has just been merged on an engine whose
\* cleanup() ran while the request was in flight.
C17_Witness ==
    /\ step.op = "debounceResponse"
    /\ step.merged
    /\ ~batchTimeout
    /\ generateHash(TextAa) \in DOMAIN cache

\* cleanup() cancelled a debounce cycle whose texts are still in the map.
CancelledCycle ==
    /\ Schedules(isSSR, storage)
    /\ timer = NoTimer
    /\ pendingTranslations # <<>>

\* C18: after cleanup() cancelled a debounce cycle, a translate call for a
\* text that was pending then and is not cached, made on the engine or
\* through the provider's translate function, leaves the text pending with a
\* new debounce timer running.
C18_ReenqueueAfterCleanup ==
    [][(/\ CancelledCycle
        /\ step'.op \in {"translate", "providerTranslate"}
        /\ isTranslationPending(pendingTranslations, step'.text)
        /\ ~Truthy(getCachedTranslation(cache, step'.text)))
            => /\ isTranslationPending(pendingTranslations', step'.text)
               /\ timer' = DebounceTicks]_vars

\* ================================================= server regime: operations
addTextsNone(batchTexts, textsToTranslate) == batchTexts

\* textsToTranslate.forEach((text) => pendingBatch.texts.add(text))
RECURSIVE addTexts(_, _)
addTexts(batchTexts, textsToTranslate) ==
    IF textsToTranslate = <<>> THEN batchTexts
    ELSE addTexts(SetAdd(batchTexts, Head(textsToTranslate)), Tail(textsToTranslate))

extractResultsAssign(results, textsToTranslate, batchResults) ==
    Merge(results, batchResults)

\* textsToTranslate.forEach((text) => results[text] = batchResults[text] || text)
extractResults(results, textsToTranslate, batchResults) ==
    Merge(results,
          [t \in SeqToSet(textsToTranslate) |->
              IF Truthy(Get(batchResults, t)) THEN batchResults[t] ELSE t])

executeBatchNoCatch(texts, settle) == settle

\* executeBatch: try { return await service.translateBatch(batchRequest) }
\* catch { return Object.fromEntries(texts.map((text) => [text, text])) }
executeBatch(texts, settle) ==
    IF settle.status = "rejected"
    THEN [status |-> "resolved", value |-> IdentityMap(texts), call |-> settle.call]
    ELSE settle

batchTranslatePassThroughNever(cfg) == FALSE

\* batchTranslate: the pass-through check at its entry.
batchTranslatePassThrough(cfg) == samePassThrough(cfg)

initInProgressNever(promises, key) == FALSE

\* getService: this.initPromises.has(cacheKey)
initInProgress(promises, key) == key \in promises

\* A continuation that is ready to run (its awaited promise has settled).
Ready(c) ==
    \/ callers[c].pc = "getService"
    \/ /\ callers[c].pc \in {"awaitInit", "awaitInitOwner"}
       /\ cacheKey(callers[c].config) \in DOMAIN services
    \/ /\ callers[c].pc = "awaitBatch"
       /\ callers[c].batch \in DOMAIN batchSettled

\* Timers and network completions run only when no microtask is queued.
NoMicrotask ==
    /\ \A c \in Callers : ~Ready(c)
    /\ \A k \in DOMAIN pendingBatches : pendingBatches[k].phase # "executed"

\* Callers are interchangeable: they start in the order of their numbers.
MayStart(c) ==
    /\ callers[c].pc = "idle"
    /\ \A d \in Callers : d < c => callers[d].pc # "idle"

\* ------------------------------------------------ the two-pass components
\* A render function is the sequence of helper calls it makes; the output
\* of one invocation is the sequence of what the helpers returned.
HelperT(text) == [helper |-> "t", arg |-> StringNode(text)]
HelperTf(jsx) == [helper |-> "tf", arg |-> jsx]

\* <>C<b>Aa</b></>, <>C{5}</> and <b>{"<"}</b>
JsxStyled ==
    Element("Fragment", ArrayNode(<<StringNode(TextC), Element("b", StringNode(TextAa))>>))
JsxCount == Element("Fragment", ArrayNode(<<StringNode(TextC), NumberNode(5)>>))
JsxLess == Element("b", StringNode(<<60>>))

\* The codec results for the structured items used below, computed once.
KnownJsx == {JsxStyled, JsxCount, JsxLess}

ExtractTable == [jsx \in KnownJsx |-> extractTextAndStyles(jsx)]

extracted(jsx) ==
    IF jsx \in KnownJsx THEN ExtractTable[jsx] ELSE extractTextAndStyles(jsx)

RestoreInputs ==
    UNION {{<<text, ExtractTable[jsx].styles>> :
                text \in {ExtractTable[jsx].text, ApiTranslation(ExtractTable[jsx].text)}} :
           jsx \in KnownJsx}

RestoreTable == [p \in RestoreInputs |-> restoreStyledText(p[1], p[2])]

restored(text, styles) ==
    IF <<text, styles>> \in RestoreInputs
    THEN RestoreTable[<<text, styles>>]
    ELSE restoreStyledText(text, styles)

\* Render functions: the second of PlainRenders asks for one text twice, the
\* first of StyledRenders passes one structured item twice, around a text.
PlainRenders ==
    {<<>>, <<HelperT(TextAa), HelperT(TextAa)>>, <<HelperT(TextSpace), HelperT(TextC)>>}
StyledRenders ==
    {<<HelperTf(JsxStyled), HelperT(TextC), HelperTf(JsxStyled)>>,
     <<HelperTf(JsxCount)>>, <<HelperTf(JsxLess)>>}

\* renderFn({t: collectingT, tf: collectingTf}): both helpers return their
\* argument.
collectingPass(render) == [i \in 1..Len(render) |-> render[i].arg]

\* collectedStrings (a Set, in insertion order) and collectedFormatted.
RECURSIVE collectedStrings(_)
collectedStrings(render) ==
    IF render = <<>> THEN <<>>
    ELSE LET before == collectedStrings(SubSeq(render, 1, Len(render) - 1))
             call == render[Len(render)]
         IN  IF call.helper = "t" THEN SetAdd(before, call.arg.value) ELSE before

RECURSIVE collectedFormattedByValue(_)
collectedFormattedByValue(render) ==
    IF render = <<>> THEN <<>>
    ELSE LET before == collectedFormattedByValue(SubSeq(render, 1, Len(render) - 1))
             call == render[Len(render)]
         IN  IF call.helper = "tf" THEN SetAdd(before, call.arg) ELSE before

\* collectedFormatted.push(jsx): one entry for every tf call.
collectedFormatted(render) ==
    [i \in 1..Len(SelectSeq(render, LAMBDA call : call.helper = "tf")) |->
        SelectSeq(render, LAMBDA call : call.helper = "tf")[i].arg]

formattedTextTemplates(render) ==
    [i \in 1..Len(collectedFormatted(render)) |->
        extracted(collectedFormatted(render)[i]).text]

stylesArray(render) ==
    [i \in 1..Len(collectedFormatted(render)) |->
        extracted(collectedFormatted(render)[i]).styles]

allStringsToTranslate(render) == collectedStrings(render) \o formattedTextTemplates(render)

\* allTranslations[str] || str
translationOr(allTranslations, str) ==
    IF Truthy(Get(allTranslations, str)) THEN allTranslations[str] ELSE str

formattedTranslations(render, allTranslations) ==
    [i \in 1..Len(formattedTextTemplates(render)) |->
        restored(translationOr(allTranslations, formattedTextTemplates(render)[i]),
                 stylesArray(render)[i])]

\* renderFn({t: finalT, tf: finalTf}): tfCounter is the number of tf calls
\* made before the call at hand.
finalPass(render, allTranslations) ==
    LET strings == SeqToSet(collectedStrings(render))
        translatedJsx == formattedTranslations(render, allTranslations)
    IN  [i \in 1..Len(render) |->
            IF render[i].helper = "t"
            THEN LET text == render[i].arg.value
                     translated == IF text \in strings
                                   THEN translationOr(allTranslations, text)
                                   ELSE Undefined
                 IN  StringNode(IF Truthy(translated) THEN translated ELSE text)
            ELSE LET tfCounter ==
                        Len(SelectSeq(SubSeq(render, 1, i - 1),
                                      LAMBDA call : call.helper = "tf"))
                 IN  \* formattedTranslations[tfCounter++] || jsx
                     IF tfCounter + 1 <= Len(translatedJsx)
                     THEN translatedJsx[tfCounter + 1]
                     ELSE render[i].arg]

secondRenderReuse(rec) ==
    IF rec.passes = <<>> THEN rec
    ELSE IF rec.texts = <<>>
    THEN [rec EXCEPT !.output = collectingPass(rec.render)]
    ELSE [rec EXCEPT !.passes = Append(@, "final"),
                     !.output = finalPass(rec.render, rec.results)]

\* The component after its batchTranslate call (if any) returned: the second
\* invocation of the render function, whose output the component returns.
\* Calls that are not made by a component have no passes.
secondRender(rec) ==
    IF rec.passes = <<>> THEN rec
    ELSE [rec EXCEPT !.passes = Append(@, "final"),
                     !.output = finalPass(rec.render, rec.results)]

Finish(c, rec, results) ==
    callers' = [callers EXCEPT ![c] =
                  secondRender([rec EXCEPT !.pc = "done", !.results = results])]

\* getService up to its first await, called for caller record rec.
getService(c, rec) ==
    LET key == cacheKey(rec.config) IN
    IF key \in DOMAIN services
    THEN /\ callers' = [callers EXCEPT ![c] = [rec EXCEPT !.pc = "getService"]]
         /\ UNCHANGED <<engines, initPromises, net, sent>>
    ELSE IF initInProgress(initPromises, key)
    THEN /\ callers' = [callers EXCEPT ![c] = [rec EXCEPT !.pc = "awaitInit"]]
         /\ UNCHANGED <<engines, initPromises, net, sent>>
    ELSE \* initializeService: new TranslationService(cfg); service.init()
         \* runs to the fetch of loadExistingTranslations
         LET id == Len(engines) + 1
             req == [endpoint |-> "v1/translations", key |-> key,
                     config |-> rec.config, service |-> id, items |-> <<>>,
                     texts |-> <<>>, batch |-> 0, caller |-> 0]
         IN  /\ engines' = Append(engines, newService(rec.config))
             /\ initPromises' = initPromises \cup {key}
             /\ net' = net \cup {req}
             /\ sent' = Append(sent, req)
             /\ callers' = [callers EXCEPT ![c] = [rec EXCEPT !.pc = "awaitInitOwner"]]

\* batchTranslate(texts, config) up to its first await.
batchTranslateFrom(c, base, texts, cfg) ==
    LET rec == [base EXCEPT !.entry = "batchTranslate",
                                  !.config = cfg, !.texts = texts]
    IN  IF batchTranslatePassThrough(cfg)
        THEN /\ Finish(c, rec, IdentityMap(texts))
             /\ UNCHANGED <<engines, initPromises, net, sent>>
        ELSE getService(c, rec)

batchTranslate(c, texts, cfg) == batchTranslateFrom(c, IdleCaller, texts, cfg)

\* A caller record is the batchTranslate call the entry point makes (entry
\* "batchTranslate"), or the entry point's own early return.  joined is the
\* phase the batch of the key was in when the call reached it.

\* translateServerStrings(strings, locale, config)
translateServerStringsWith(c, configs) ==
    \E strings \in ServerInputs, cfg \in configs :
        LET rec == [IdleCaller EXCEPT !.entry = "translateServerStrings",
                                      !.config = cfg, !.texts = strings]
        IN  /\ MayStart(c)
            /\ IF Len(strings) = 0
               THEN /\ Finish(c, rec, EmptyMap)
                    /\ UNCHANGED <<engines, initPromises, net, sent>>
               ELSE IF samePassThrough(cfg)
               THEN /\ Finish(c, rec, IdentityMap(strings))
                    /\ UNCHANGED <<engines, initPromises, net, sent>>
               ELSE batchTranslate(c, rec.texts, rec.config)
            /\ UNCHANGED <<services, pendingBatches, batchSettled, nextBatch, engineVars>>

translateServerStrings(c) == translateServerStringsWith(c, ServerConfigs)

\* createServerT(strings, locale, config): the function it returns without
\* translating is the identity, kept as the empty translations map.
createServerT(c) ==
    \E strings \in ServerInputs, cfg \in ServerConfigs :
        LET rec == [IdleCaller EXCEPT !.entry = "createServerT",
                                      !.config = cfg, !.texts = strings]
        IN  /\ MayStart(c)
            /\ IF Len(strings) = 0 \/ samePassThrough(cfg)
               THEN /\ Finish(c, rec, EmptyMap)
                    /\ UNCHANGED <<engines, initPromises, net, sent>>
               ELSE batchTranslate(c, rec.texts, rec.config)
            /\ UNCHANGED <<services, pendingBatches, batchSettled, nextBatch, engineVars>>

\* Component calls overlap in pairs: a further one starts when at most one
\* call is unfinished.
MayRender(c) ==
    /\ MayStart(c)
    /\ \A d, e \in Callers :
          (callers[d].pc \notin {"idle", "done"} /\ callers[e].pc \notin {"idle", "done"})
              => d = e

\* The component returned by ServerTranslated(locale, config, renderFn), up
\* to its await: the first invocation of renderFn, then one batchTranslate
\* call for the collected strings and templates, or none and the second
\* invocation at once when nothing was collected.
twoPass(c, entry, render, cfg) ==
    LET rec == [IdleCaller EXCEPT !.entry = entry, !.config = cfg,
                                  !.texts = allStringsToTranslate(render),
                                  !.render = render,
                                  !.passes = <<"collecting">>]
    IN  /\ MayRender(c)
        /\ IF Len(rec.texts) = 0
           THEN /\ Finish(c, rec, EmptyMap)
                /\ UNCHANGED <<engines, initPromises, net, sent>>
           ELSE batchTranslateFrom(c, rec, rec.texts, rec.config)
        /\ UNCHANGED <<services, pendingBatches, batchSettled, nextBatch, engineVars>>

\* ServerTranslatedComponent, with a render function that uses t only.
ServerTranslatedComponent(c) ==
    \E render \in PlainRenders, cfg \in ServerConfigs :
        twoPass(c, "ServerTranslated", render, cfg)

\* TranslatedComponent, the component returned by withServerTranslation(
\* config, Component): it calls the ServerTranslated component for the
\* locale of the config or of its props, with Component (here one that uses
\* tf, alone or with t) as render function.
TranslatedComponent(c) ==
    \E render \in StyledRenders, cfg \in ServerConfigs :
        twoPass(c, "withServerTranslation", render, cfg)

\* ServerTranslated(locale, config, renderFn) as the batchTranslate call its
\* component makes: collected are the strings and templates of the first
\* pass.
ServerTranslated(c) ==
    \E collected \in ServerInputs, cfg \in ServerConfigs :
        LET rec == [IdleCaller EXCEPT !.entry = "ServerTranslated",
                                      !.config = cfg, !.texts = collected]
        IN  /\ MayStart(c)
            /\ IF Len(collected) = 0
               THEN /\ Finish(c, rec, EmptyMap)
                    /\ UNCHANGED <<engines, initPromises, net, sent>>
               ELSE batchTranslate(c, rec.texts, rec.config)
            /\ UNCHANGED <<services, pendingBatches, batchSettled, nextBatch, engineVars>>

\* ServerTranslator.translateStrings(strings), also the translation step of
\* translateFormatted (strings are then the extracted templates).
translateStrings(c) ==
    \E strings \in ServerInputs, cfg \in ServerConfigs :
        LET rec == [IdleCaller EXCEPT !.entry = "translateStrings",
                                      !.config = cfg, !.texts = strings]
        IN  /\ MayStart(c)
            /\ IF Len(strings) = 0
               THEN /\ Finish(c, rec, EmptyMap)
                    /\ UNCHANGED <<engines, initPromises, net, sent>>
               ELSE IF samePassThrough(cfg)
               THEN /\ Finish(c, rec, IdentityMap(strings))
                    /\ UNCHANGED <<engines, initPromises, net, sent>>
               ELSE getService(c, rec)
            /\ UNCHANGED <<services, pendingBatches, batchSettled, nextBatch, engineVars>>

\* The /v1/translate request translateBatch issues on instance id.
TranslateRequest(id, key, texts, batch, caller) ==
    [endpoint |-> "v1/translate", key |-> key, config |-> engines[id].config,
     service |-> id,
     items |-> translateBatchRequest(engines[id].isInitialized, BatchRequest(texts)),
     texts |-> texts, batch |-> batch, caller |-> caller]

\* batchTranslate after "await this.getService(config)": the cache check,
\* then joining the pending batch of the key or starting a new one.
coalesce(c, id) ==
    LET rec == callers[c]
        key == cacheKey(rec.config)
        todo == TextsToTranslate(engines[id].cache, rec.texts)
        found == CachedResults(engines[id].cache, rec.texts)
    IN  IF Len(todo) = 0
        THEN /\ Finish(c, [rec EXCEPT !.service = id], found)
             /\ UNCHANGED <<pendingBatches, nextBatch>>
        ELSE IF key \in DOMAIN pendingBatches
        THEN /\ pendingBatches' =
                    [pendingBatches EXCEPT ![key].texts = addTexts(@, todo)]
             /\ callers' = [callers EXCEPT ![c] =
                    [rec EXCEPT !.pc = "awaitBatch", !.service = id,
                                !.todo = todo, !.results = found,
                                !.batch = pendingBatches[key].id,
                                !.joined = pendingBatches[key].phase]]
             /\ UNCHANGED nextBatch
        ELSE /\ nextBatch' = nextBatch + 1
             /\ pendingBatches' = (key :> [id |-> nextBatch + 1, texts |-> addTexts(<<>>, todo),
                                           phase |-> "waiting", service |-> id,
                                           settle |-> [status |-> "resolved", value |-> EmptyMap,
                                                       call |-> "none"]])
                                  @@ pendingBatches
             /\ callers' = [callers EXCEPT ![c] =
                    [rec EXCEPT !.pc = "awaitBatch", !.service = id,
                                !.todo = todo, !.results = found,
                                !.batch = nextBatch + 1, !.joined = "waiting"]]

\* translateStrings after "await ServerTranslationCache.getService(config)":
\* the cache check, then its own translateBatch call.
translateMissing(c, id) ==
    LET rec == callers[c]
        key == cacheKey(rec.config)
        todo == TextsToTranslate(engines[id].cache, rec.texts)
        found == CachedResults(engines[id].cache, rec.texts)
        req == TranslateRequest(id, key, todo, 0, c)
    IN  IF Len(todo) = 0 \/ Len(req.items) = 0
        THEN /\ Finish(c, [rec EXCEPT !.service = id, !.todo = todo], found)
             /\ UNCHANGED <<net, sent>>
        ELSE /\ callers' = [callers EXCEPT ![c] =
                    [rec EXCEPT !.pc = "awaitTranslate", !.service = id,
                                !.todo = todo, !.results = found]]
             /\ net' = net \cup {req}
             /\ sent' = Append(sent, req)

\* The continuation of "await getService": getService returns the registered
\* instance (the initiator first deletes the init promise of the key).
ResumeGetService(c) ==
    LET rec == callers[c]
        key == cacheKey(rec.config)
    IN  /\ rec.pc \in {"getService", "awaitInit", "awaitInitOwner"}
        /\ Ready(c)
        /\ initPromises' = IF rec.pc = "awaitInitOwner"
                           THEN initPromises \ {key} ELSE initPromises
        /\ IF rec.entry = "translateStrings"
           THEN /\ translateMissing(c, services[key])
                /\ UNCHANGED <<pendingBatches, nextBatch>>
           ELSE /\ coalesce(c, services[key])
                /\ UNCHANGED <<net, sent>>
        /\ UNCHANGED <<engines, services, batchSettled, engineVars>>

initSettledUnflagged(service, outcome) ==
    [service EXCEPT !.cache = mergeResponse(@, outcome),
                    !.lastRefreshTime = IF outcome.kind = "ok" THEN 1 ELSE @,
                    !.isInitialized = (outcome.kind = "ok")]

\* The instance when its init() settles in a server environment: the body of
\* loadExistingTranslations is merged if there is one, and isInitialized is
\* set on the normal path and in the catch block alike.
initSettled(service, outcome) ==
    [service EXCEPT !.cache = mergeResponse(@, outcome),
                    !.lastRefreshTime = IF outcome.kind = "ok" THEN 1 ELSE @,
                    !.isInitialized = TRUE]

\* The /v1/translations call of init() completes: loadExistingTranslations
\* merges a 2xx body, init marks the instance initialized (also after a
\* failure, which it swallows) and initializeService registers the instance.
InitResponse ==
    \E req \in net, outcome \in LoadOutcomes :
        /\ req.endpoint = "v1/translations"
        /\ NoMicrotask
        /\ engines' = [engines EXCEPT ![req.service] = initSettled(@, outcome)]
        /\ services' = (req.key :> req.service) @@ services
        /\ net' = net \ {req}
        /\ UNCHANGED <<initPromises, pendingBatches, batchSettled, nextBatch,
                       callers, sent, engineVars>>

\* The coalescing delay of the batch of a key elapses: the accumulated texts
\* are snapshotted and executeBatch calls translateBatch with them.
TimerFire ==
    \E key \in DOMAIN pendingBatches :
        LET desc == pendingBatches[key]
            req == TranslateRequest(desc.service, key, desc.texts, desc.id, 0)
        IN  /\ desc.phase = "waiting"
            /\ NoMicrotask
            /\ IF Len(req.items) = 0
               THEN /\ pendingBatches' = [pendingBatches EXCEPT ![key].phase = "executed"]
                    /\ UNCHANGED <<net, sent>>
               ELSE /\ pendingBatches' = [pendingBatches EXCEPT ![key].phase = "inflight"]
                    /\ net' = net \cup {req}
                    /\ sent' = Append(sent, req)
            /\ UNCHANGED <<engines, services, initPromises, batchSettled,
                           nextBatch, callers, engineVars>>

\* The /v1/translate call of a batch completes: translateBatch merges a 2xx
\* body into the cache and settles; executeBatch passes the result on.
BatchResponse ==
    \E req \in net :
        /\ req.endpoint = "v1/translate"
        /\ req.batch # 0
        /\ NoMicrotask
        /\ \E outcome \in Outcomes(req.items) :
            LET all == BatchRequest(req.texts) IN
            /\ engines' = [engines EXCEPT ![req.service].cache = mergeResponse(@, outcome)]
            /\ pendingBatches' = [pendingBatches EXCEPT
                    ![req.key].phase = "executed",
                    ![req.key].settle =
                        executeBatch(req.texts, translateBatchSettle(all, outcome))]
        /\ net' = net \ {req}
        /\ UNCHANGED <<services, initPromises, batchSettled, nextBatch, callers, sent,
                       engineVars>>

\* After executeBatch returned: this.pendingBatches.delete(cacheKey), and the
\* batch promise settles with the batch results.
BatchFinish ==
    \E key \in DOMAIN pendingBatches :
        /\ pendingBatches[key].phase = "executed"
        /\ batchSettled' = (pendingBatches[key].id :> pendingBatches[key].settle)
                           @@ batchSettled
        /\ pendingBatches' = Remove(pendingBatches, key)
        /\ UNCHANGED <<engines, services, initPromises, nextBatch, callers, net, sent,
                       engineVars>>

\* The continuation of "await batchPromise" / "await pendingBatch.promise".
ResumeBatch(c) ==
    LET rec == callers[c] IN
    /\ rec.pc = "awaitBatch"
    /\ Ready(c)
    /\ IF batchSettled[rec.batch].status = "rejected"
       THEN callers' = [callers EXCEPT ![c].pc = "rejected"]
       ELSE Finish(c, rec, extractResults(rec.results, rec.todo,
                                          batchSettled[rec.batch].value))
    /\ UNCHANGED <<engines, services, initPromises, pendingBatches, batchSettled,
                   nextBatch, net, sent, engineVars>>

\* The /v1/translate call of a translateStrings call completes:
\* Object.assign(results, batchTranslations), or the identity fallback of
\* its catch block.
DirectResponse ==
    \E req \in net :
        /\ req.endpoint = "v1/translate"
        /\ req.caller # 0
        /\ NoMicrotask
        /\ \E outcome \in Outcomes(req.items) :
            LET rec == callers[req.caller]
                settle == translateBatchSettle(BatchRequest(req.texts), outcome)
            IN  /\ engines' = [engines EXCEPT ![req.service].cache = mergeResponse(@, outcome)]
                /\ Finish(req.caller, rec,
                          IF settle.status = "rejected"
                          THEN Merge(rec.results, IdentityMap(rec.todo))
                          ELSE Merge(rec.results, settle.value))
        /\ net' = net \ {req}
        /\ UNCHANGED <<services, initPromises, pendingBatches, batchSettled,
                       nextBatch, sent, engineVars>>

NextServer ==
    \/ \E c \in Callers : translateServerStrings(c)
    \/ \E c \in Callers : createServerT(c)
    \/ \E c \in Callers : ServerTranslated(c)
    \/ \E c \in Callers : translateStrings(c)
    \/ \E c \in Callers : ResumeGetService(c)
    \/ \E c \in Callers : ResumeBatch(c)
    \/ InitResponse
    \/ TimerFire
    \/ BatchResponse
    \/ BatchFinish
    \/ DirectResponse

\* The server regime alone: the directly used engine stays as constructed.
InitServerRegime == InitServer /\ UnusedEngine

SpecServer == InitServerRegime /\ [][NextServer]_vars

\* Server components only.
NextTwoPass ==
    \/ \E c \in Callers : ServerTranslatedComponent(c)
    \/ \E c \in Callers : TranslatedComponent(c)
    \/ \E c \in Callers : ResumeGetService(c)
    \/ \E c \in Callers : ResumeBatch(c)
    \/ InitResponse
    \/ TimerFire
    \/ BatchResponse
    \/ BatchFinish

SpecTwoPass == InitServerRegime /\ [][NextTwoPass]_vars

\* The steps the event loop takes on its own: queued continuations, timers
\* and the completion of started network calls.
EventLoopStep ==
    \/ \E c \in Callers : ResumeGetService(c)
    \/ \E c \in Callers : ResumeBatch(c)
    \/ InitResponse
    \/ TimerFire
    \/ BatchResponse
    \/ BatchFinish
    \/ DirectResponse

\* Fairness of the server regime: the event loop does not stop while a
\* continuation, a timer or a network completion is due.
FairServer == WF_vars(EventLoopStep)

SpecServerFair == SpecServer /\ FairServer

\* ------------------------------------------------- server regime: properties
NonBlank(texts) == {t \in texts : ~IsBlank(t)}

\* The batch's coalescing delay has elapsed.
Executed(b) ==
    \/ b \in DOMAIN batchSettled
    \/ \E k \in DOMAIN pendingBatches :
          pendingBatches[k].id = b /\ pendingBatches[k].phase # "waiting"

\* The batchTranslate calls that reached batch b before its delay elapsed.
InWindow(b) == {c \in Callers : callers[c].batch = b /\ callers[c].joined = "waiting"}

WindowTexts(b) == UNION {SeqToSet(callers[c].todo) : c \in InWindow(b)}

SentFor(b) == {i \in DOMAIN sent : sent[i].batch = b}

\* C1 as stated: for the requests of one key that arrive before the
\* coalescing delay of the first elapses, exactly one /v1/translate call is
\* made and its items are the union of all their uncached texts.
C1_Original ==
    \A b \in 1..nextBatch :
        Executed(b) =>
            /\ Cardinality(SentFor(b)) = 1
            /\ \A i \in SentFor(b) : ItemTexts(sent[i].items) = WindowTexts(b)

\* C1 amended: for the requests of one key that arrive before the coalescing
\* delay of the first elapses, at most one /v1/translate call is made;
\* exactly one when their uncached texts include a non-blank text, and then
\* its items are the union of their non-blank uncached texts, which holds
\* every non-blank text added to the descriptor before the window closed.
C1_Coalescing ==
    \A b \in 1..nextBatch :
        Executed(b) =>
            /\ Cardinality(SentFor(b)) = IF NonBlank(WindowTexts(b)) = {} THEN 0 ELSE 1
            /\ \A i \in SentFor(b) :
                  /\ ItemTexts(sent[i].items) = NonBlank(WindowTexts(b))
                  /\ NonBlank(SeqToSet(sent[i].texts)) \subseteq ItemTexts(sent[i].items)

C1_Witness ==
    \E b \in 1..nextBatch : \E c1, c2 \in InWindow(b) :
        /\ SeqToSet(callers[c1].todo) # SeqToSet(callers[c2].todo)
        /\ SentFor(b) # {}

Quiescent ==
    /\ \A c \in Callers : callers[c].pc = "done"
    /\ net = {}
    /\ DOMAIN pendingBatches = {}

\* C2 as stated: a request that arrives while the batch of its key is in
\* flight joins the next batch: each of its uncached (non-blank) texts is
\* sent in a later /v1/translate call.
C2_LateJoinsNext ==
    Quiescent =>
        \A c \in Callers :
            callers[c].joined = "inflight" =>
                \A t \in NonBlank(SeqToSet(callers[c].todo)) :
                    \E i \in DOMAIN sent :
                        /\ sent[i].batch > callers[c].batch
                        /\ t \in ItemTexts(sent[i].items)

RegistryKeys == {cacheKey(cfg) : cfg \in ServerConfigs}

\* C3: at most one /v1/translations request is ever made per composite key
\* and every caller of getService for a key obtains the same instance, the
\* one registered for the key.
C3_OneInit ==
    \A key \in RegistryKeys :
        /\ Cardinality({i \in DOMAIN sent :
                sent[i].endpoint = "v1/translations" /\ sent[i].key = key}) <= 1
        /\ Cardinality({id \in DOMAIN engines : cacheKey(engines[id].config) = key}) <= 1
        /\ \A c \in Callers :
              (callers[c].service # 0 /\ cacheKey(callers[c].config) = key) =>
                  /\ key \in DOMAIN services
                  /\ callers[c].service = services[key]

C3_Witness ==
    \E c1, c2 \in Callers :
        /\ c1 # c2
        /\ callers[c1].service # 0
        /\ callers[c1].service = callers[c2].service
        /\ Len(sent) >= 1

\* C6: with sourceLocale = targetLocale every server entry point resolves at
\* once with each input text mapped to itself, and no instance, init
\* promise, batch descriptor or network request is ever created for it.
C6_ServerPassThrough ==
    /\ \A c \in Callers :
          (callers[c].pc # "idle" /\ samePassThrough(callers[c].config)) =>
              /\ callers[c].pc = "done"
              /\ \A t \in SeqToSet(callers[c].texts) :
                    IF callers[c].entry \in {"createServerT", "ServerTranslated"}
                    THEN ~Truthy(Get(callers[c].results, t))
                    ELSE Get(callers[c].results, t) = t
    /\ \A id \in DOMAIN engines : ~samePassThrough(engines[id].config)
    /\ \A cfg \in ServerConfigs :
          samePassThrough(cfg) =>
              /\ cacheKey(cfg) \notin DOMAIN services
              /\ cacheKey(cfg) \notin initPromises
              /\ cacheKey(cfg) \notin DOMAIN pendingBatches
    /\ \A i \in DOMAIN sent : ~samePassThrough(sent[i].config)

C6_Witness ==
    \E c \in Callers :
        /\ callers[c].pc = "done"
        /\ callers[c].entry = "batchTranslate"
        /\ samePassThrough(callers[c].config)
        /\ callers[c].texts # <<>>
        /\ \E d \in Callers : callers[d].service # 0

\* Every call that was started has resolved and no descriptor is left.
Settled ==
    /\ \A c \in Callers : callers[c].pc \in {"idle", "done"}
    /\ DOMAIN pendingBatches = {}

\* C7: given that every started network call completes, no batchTranslate
\* call rejects; after a failed batch each caller gets its texts back
\* unchanged; and from some point on every call that was started has
\* resolved and every descriptor has been discarded (a call runs once, so
\* this says that each started call eventually resolves and each
\* descriptor is eventually removed).
C7_NoCallerLeft ==
    /\ [](\A c \in Callers : callers[c].pc # "rejected")
    /\ [](\A c \in Callers :
            (/\ callers[c].pc = "done"
             /\ callers[c].batch # 0
             /\ batchSettled[callers[c].batch].call \in NetFailures) =>
                \A t \in SeqToSet(callers[c].todo) : callers[c].results[t] = t)
    /\ <>[]Settled

C7_Witness ==
    \E c \in Callers :
        /\ callers[c].pc = "done"
        /\ callers[c].batch # 0
        /\ batchSettled[callers[c].batch].call = "throws"
        /\ callers[c].joined = "inflight"

\* The calls made by a two-pass component.
IsComponent(rec) == rec.passes # <<>>

\* The /v1/translate call of the batch the call waited for failed.
BatchFailed(rec) ==
    /\ rec.batch # 0
    /\ rec.batch \in DOMAIN batchSettled
    /\ batchSettled[rec.batch].call \in NetFailures

\* C19: a component returned by ServerTranslated or withServerTranslation
\* never rejects; while it waits for its one batchTranslate call the render
\* function has been invoked once, with the collecting helpers; when it has
\* returned, the render function has been invoked exactly twice, collecting
\* pass first and final pass second, every collected item has a result, and
\* the component's output is the output of the final pass; without collected
\* items no batchTranslate call is made.
C19_TwoPass ==
    \A c \in Callers :
        LET rec == callers[c] IN
        IsComponent(rec) =>
            /\ rec.pc # "rejected"
            /\ rec.texts = allStringsToTranslate(rec.render)
            /\ rec.pc # "done" =>
                  /\ rec.passes = <<"collecting">>
                  /\ rec.entry = "batchTranslate"
                  /\ rec.texts # <<>>
            /\ rec.pc = "done" =>
                  /\ rec.passes = <<"collecting", "final">>
                  /\ SeqToSet(rec.texts) \subseteq DOMAIN rec.results
                  /\ rec.output = finalPass(rec.render, rec.results)
                  /\ Len(rec.output) = Len(collectingPass(rec.render))
                  /\ rec.entry = "batchTranslate" <=> rec.texts # <<>>

\* Both kinds of component call have returned: one that collected nothing,
\* and one whose batch failed after it had collected a structured item.
C19_Witness ==
    \E c1, c2 \in Callers :
        /\ IsComponent(callers[c1])
        /\ callers[c1].pc = "done"
        /\ callers[c1].texts = <<>>
        /\ IsComponent(callers[c2])
        /\ callers[c2].pc = "done"
        /\ BatchFailed(callers[c2])
        /\ \E i \in 1..Len(callers[c2].render) : callers[c2].render[i].helper = "tf"

\* C20: when the /v1/translate call of its batch failed, the component has
\* resolved, its final t helper returned the original text for every string
\* that was sent, and its final tf helper returned content showing the text
\* of the original for every structured item whose template was sent.
C20_FailureSemantics ==
    \A c \in Callers :
        LET rec == callers[c] IN
        (IsComponent(rec) /\ rec.pc \in {"done", "rejected"} /\ BatchFailed(rec)) =>
            /\ rec.pc = "done"
            /\ \A i \in 1..Len(rec.render) :
                  IF rec.render[i].helper = "t"
                  THEN rec.render[i].arg.value \in SeqToSet(rec.todo) =>
                          rec.output[i] = rec.render[i].arg
                  ELSE extracted(rec.render[i].arg).text \in SeqToSet(rec.todo) =>
                          visibleText(rec.output[i]) = visibleText(rec.render[i].arg)

\* The positions of the calls a render function makes to one helper.
CallsTo(render, helper) == {i \in 1..Len(render) : render[i].helper = helper}

\* What the final helper must return for the call at position i: the
\* resolved translation of the text, or the restored translation of the
\* structured argument.
Resolved(rec, i) ==
    LET arg == rec.render[i].arg IN
    IF rec.render[i].helper = "t"
    THEN StringNode(translationOr(rec.results, arg.value))
    ELSE restored(translationOr(rec.results, extracted(arg).text),
                  extracted(arg).styles)

\* Every final helper call returned the resolved translation of its item.
LookupByItem(rec) ==
    rec.pc = "done" =>
        /\ Len(rec.output) = Len(rec.render)
        /\ \A i \in 1..Len(rec.render) : rec.output[i] = Resolved(rec, i)

IsBatchTranslate(rec) == rec.entry \in {"batchTranslate", "translateServerStrings"}

\* C22: a batchTranslate / translateServerStrings call never rejects and
\* resolves to a mapping with an entry for each of its own input texts (and
\* no other): for a text the cache check found, the cached translation; for
\* a text it left to the batch, the value the batch returned for it when
\* that is a non-empty string, else the text itself; whether the call owned
\* the batch, joined it in its window or joined it in flight.
C22_ResultShape ==
    \A c \in Callers :
        LET rec == callers[c] IN
        IsBatchTranslate(rec) =>
            /\ rec.pc # "rejected"
            /\ rec.pc = "done" =>
                  /\ DOMAIN rec.results = SeqToSet(rec.texts)
                  /\ \A t \in SeqToSet(rec.texts) :
                        /\ rec.results[t] \in {t, ApiTranslation(t)}
                        /\ (rec.service # 0 /\ t \notin SeqToSet(rec.todo)) =>
                              rec.results[t] = ApiTranslation(t)
                        /\ (rec.batch # 0 /\ t \in SeqToSet(rec.todo)) =>
                              rec.results[t] =
                                  translationOr(batchSettled[rec.batch].value, t)

\* Two calls with different texts shared one batch, one of them joined it
\* in flight, and both have resolved, one with a translated text.
C22_Witness ==
    \E c1, c2 \in Callers :
        /\ c1 # c2
        /\ callers[c1].pc = "done"
        /\ callers[c2].pc = "done"
        /\ callers[c1].batch # 0
        /\ callers[c1].batch = callers[c2].batch
        /\ callers[c1].joined = "waiting"
        /\ callers[c2].joined = "inflight"
        /\ SeqToSet(callers[c1].texts) # SeqToSet(callers[c2].texts)
        /\ \E t \in SeqToSet(callers[c1].todo) :
              callers[c1].results[t] = ApiTranslation(t)

\* C23: a ServerTranslator.translateStrings call never rejects and, for a
\* non-empty input list, resolves to a mapping defined on every input
\* string, each value a translation of it or the string itself (so that
\* translateFormatted, which restores translations[template] for every
\* extracted template, finds a string for each of them, also for an empty
\* or whitespace-only template).
C23_TranslateStringsTotal ==
    \A c \in Callers :
        LET rec == callers[c] IN
        rec.entry = "translateStrings" =>
            /\ rec.pc # "rejected"
            /\ (rec.pc = "done" /\ rec.texts # <<>>) =>
                  \A t \in SeqToSet(rec.texts) :
                      /\ t \in DOMAIN rec.results
                      /\ rec.results[t] \in {t, ApiTranslation(t)}

\* The /v1/translate requests sent for the translateStrings calls cs.
SentForCalls(cs) ==
    {i \in DOMAIN sent : sent[i].endpoint = "v1/translate" /\ sent[i].caller \in cs}

\* C24: when two ServerTranslator.translateStrings calls for the same
\* composite key with different uncached texts wait for their translations
\* at the same time (neither has been answered: both were made before any
\* /v1/translate response), exactly one /v1/translate call has been made
\* for the two and it contains the texts of both.
C24_TranslateStringsCoalesce ==
    \A c1, c2 \in Callers :
        LET r1 == callers[c1]
            r2 == callers[c2]
        IN  (/\ c1 # c2
             /\ r1.entry = "translateStrings"
             /\ r2.entry = "translateStrings"
             /\ cacheKey(r1.config) = cacheKey(r2.config)
             /\ r1.pc = "awaitTranslate"
             /\ r2.pc = "awaitTranslate"
             /\ NonBlank(SeqToSet(r1.todo)) # NonBlank(SeqToSet(r2.todo))) =>
                /\ Cardinality(SentForCalls({c1, c2})) = 1
                /\ \A i \in SentForCalls({c1, c2}) :
                      ItemTexts(sent[i].items)
                          = NonBlank(SeqToSet(r1.todo)) \cup NonBlank(SeqToSet(r2.todo))

LookupFrame ==
    UNCHANGED <<config, isSSR, cache, cacheLoaded, storage, pendingTranslations,
                batchTimeout, timer, isInitialized, lastRefreshTime,
                onTranslationsUpdated, persisted, inflight, requests>>

WatermarkStep ==
    /\ lastRefreshTime' # lastRefreshTime
        => \/ /\ step'.op = "initLoaded"
              /\ step'.merged
              /\ lastRefreshTime' = MaxStamp
           \/ /\ step'.op = "init"
              /\ Parses(persisted)
              /\ lastRefreshTime' = persisted.lastRefreshTime
    /\ (step'.op = "initLoaded" /\ step'.merged) => lastRefreshTime' = MaxStamp
    /\ (step'.op = "initLoaded" /\ ~step'.merged) => UNCHANGED lastRefreshTime
    /\ \A req \in inflight' \ inflight :
          req.endpoint = "v1/translations" => req.lastRefreshTime = lastRefreshTime'
    /\ persisted' # persisted => persisted'.lastRefreshTime = lastRefreshTime'

\* C27: the refresh watermark.  lastRefreshTime is unset at construction; it
\* changes only when a /v1/translations load succeeds (to the current time)
\* or when init hydrates it from the persisted snapshot; a failed load
\* leaves it as it was; a /v1/translations request carries the watermark of
\* the moment it is sent (nothing when it is unset); and every snapshot
\* written carries the watermark of the moment it is written.
C27_Watermark ==
    /\ lastRefreshTime = 0
    /\ [][WatermarkStep]_vars

\* A browser engine hydrated an older watermark, its refresh succeeded and
\* the snapshot written afterwards carries the new one.
C27_Witness ==
    /\ step.op = "initLoaded"
    /\ step.merged
    /\ ~isSSR
    /\ lastRefreshTime = MaxStamp
    /\ persisted.present
    /\ persisted.lastRefreshTime = MaxStamp

\* ===================================== persist flags through the provider
\* t(text, persist) of useAutoTranslate called for the same texts with
\* either flag.
FlagInputs == {<<TextAa, TRUE>>, <<TextAa, FALSE>>, <<TextC, FALSE>>, <<TextC, TRUE>>}

providerTranslateFlags == providerTranslateFrom(FlagInputs)

NextFlags ==
    \/ init
    \/ InitLoaded
    \/ providerTranslateFlags
    \/ Tick
    \/ DebounceFire
    \/ DebounceResponse

SpecFlags == InitClient /\ [][NextFlags]_vars

\* The persist flag the pending map holds for a text.
FlagOf(pending, text) ==
    LET i == CHOOSE i \in 1..Len(pending) : pending[i].text = text
    IN  pending[i].persist

\* C28: the persist flag is last-write-wins.  A request for an uncached
\* text that is pending afterwards, made with translate on the engine or
\* with the translate function of the provider, leaves the text in the
\* pending map once, with the flag of that request; no other step changes a
\* flag; and
\* the batch that fires carries every pending text once, with its flag.
C28_LastWriteWins ==
    [][/\ (/\ step'.op \in {"translate", "providerTranslate"}
           /\ ~Truthy(getCachedTranslation(cache, step'.text))
           /\ isTranslationPending(pendingTranslations', step'.text))
            => /\ FlagOf(pendingTranslations', step'.text) = step'.persist
               /\ NoDuplicates(PendingTexts(pendingTranslations'))
       /\ step'.op \notin {"translate", "providerTranslate"}
            => pendingTranslations' \in {pendingTranslations, <<>>}
       /\ step'.op = "debounceFire"
            => \A req \in inflight' \ inflight :
                  /\ NoDuplicates(req.texts)
                  /\ SeqToSet(req.texts) = SeqToSet(PendingTexts(pendingTranslations))
                  /\ \A i \in 1..Len(req.items) :
                        req.items[i].persist =
                            FlagOf(pendingTranslations, req.items[i].text)
      ]_vars

\* ================================================ the codec called directly
\* extractTextAndStyles applied to React nodes and restoreStyledText applied
\* to what it returned (the template untranslated).

\* null or undefined as a React node.
NullNode == [kind |-> "null"]

\* Strings over an alphabet with "<", ">", "/", a letter and a digit.
CodecStrings == {<<>>, <<60>>, <<62>>, <<47>>, <<97>>, <<97, 48>>}

PlainLeaves == {StringNode(str) : str \in CodecStrings}

\* <b>text</b>: an element whose props.children is one string.
StyledLeaves == {Element("b", StringNode(str)) : str \in CodecStrings}

\* Elements whose children are further nodes: <p>a<i>a</i></p>,
\* <p><i>a</i></p>, <p>{null}</p>, <p>{5}</p>.
Wrappers ==
    {Element("p", children) :
        children \in {ArrayNode(<<StringNode(<<97>>), Element("i", StringNode(<<97>>))>>),
                      Element("i", StringNode(<<97>>)), NullNode, NumberNode(5)}}

\* An array inside an array of children, as {items.map(...)} next to other
\* children produces it: ["a", <i>/</i>].
NestedArrays == {ArrayNode(<<StringNode(<<97>>), Element("i", StringNode(<<47>>))>>)}

CodecNodes == PlainLeaves \cup StyledLeaves \cup Wrappers \cup NestedArrays \cup {NullNode}

\* Arguments of extractTextAndStyles: one node, or an array of up to
\* MaxNodes nodes.
CodecTrees ==
    CodecNodes
    \cup {ArrayNode(items) : items \in UNION {[1..n -> CodecNodes] : n \in 0..MaxNodes}}

\* extractTextAndStyles(nodes)
extractCall ==
    \E nodes \in CodecTrees :
        /\ step.op = "none"
        /\ step' = [Label("extractTextAndStyles") EXCEPT
                        !.ret = [nodes |-> nodes,
                                 text |-> extractTextAndStyles(nodes).text,
                                 styles |-> extractTextAndStyles(nodes).styles]]
        /\ Quiet
        /\ UNCHANGED <<config, isSSR, cache, cacheLoaded, storage, pendingTranslations,
                       batchTimeout, timer, isInitialized, lastRefreshTime,
                       onTranslationsUpdated, persisted, inflight, requests, window,
                       sinceMiss, serverVars>>

\* restoreStyledText(text, styles) with what the extraction returned.
restoreCall ==
    /\ step.op = "extractTextAndStyles"
    /\ step' = [Label("restoreStyledText") EXCEPT
                    !.ret = [nodes |-> step.ret.nodes,
                             text |-> step.ret.text,
                             styles |-> step.ret.styles,
                             restored |-> restoreStyledText(step.ret.text,
                                                            step.ret.styles)]]
    /\ Quiet
    /\ UNCHANGED <<config, isSSR, cache, cacheLoaded, storage, pendingTranslations,
                   batchTimeout, timer, isInitialized, lastRefreshTime,
                   onTranslationsUpdated, persisted, inflight, requests, window,
                   sinceMiss, serverVars>>

\* A translated template as the API may return it, piece by piece: plain
\* text ("", "a", "<", a dangling "<0>") and segments of the form
\* <open>content</close>.
TextPiece(str) == [kind |-> "text", value |-> str]
MarkerPiece(open, content, close) ==
    [kind |-> "marker", open |-> open, content |-> content, close |-> close]

TemplatePieces ==
    {TextPiece(<<>>), TextPiece(<<97>>), TextPiece(<<60>>), TextPiece(<<60, 48, 62>>),
     MarkerPiece(0, <<97>>, 0), MarkerPiece(1, <<>>, 1), MarkerPiece(0, <<47, 62>>, 0),
     MarkerPiece(2, <<97>>, 2), MarkerPiece(0, <<97>>, 1)}

\* The characters of one piece.
PieceText(piece) ==
    IF piece.kind = "text" THEN piece.value
    ELSE <<60>> \o ToDigits(piece.open) \o <<62>> \o piece.content \o <<60, 47>>
            \o ToDigits(piece.close) \o <<62>>

RECURSIVE TemplateOf(_)
TemplateOf(pieces) ==
    IF pieces = <<>> THEN <<>> ELSE PieceText(Head(pieces)) \o TemplateOf(Tail(pieces))

\* Style lists handed to restoreStyledText: one style and two.
StyleLists ==
    {<<[node |-> Element("b", StringNode(TextC)), text |-> TextC]>>,
     <<[node |-> Element("b", StringNode(TextC)), text |-> TextC],
       [node |-> Element("i", StringNode(TextAa)), text |-> TextAa]>>}

\* restoreStyledText(translatedText, styles) on a template of up to
\* MaxPieces pieces.
restoreTemplateCall ==
    \E pieces \in UNION {[1..n -> TemplatePieces] : n \in 0..MaxPieces},
       styles \in StyleLists :
        /\ step.op = "none"
        /\ step' = [Label("restoreTemplate") EXCEPT
                        !.ret = [pieces |-> pieces,
                                 text |-> TemplateOf(pieces),
                                 styles |-> styles,
                                 restored |-> restoreStyledText(TemplateOf(pieces),
                                                                styles)]]
        /\ Quiet
        /\ UNCHANGED <<config, isSSR, cache, cacheLoaded, storage, pendingTranslations,
                       batchTimeout, timer, isInitialized, lastRefreshTime,
                       onTranslationsUpdated, persisted, inflight, requests, window,
                       sinceMiss, serverVars>>

NextCodec ==
    \/ extractCall
    \/ restoreCall
    \/ restoreTemplateCall

SpecCodec == InitServerRegime /\ [][NextCodec]_vars

\* A styled leaf span: an element that directly wraps a plain string.
IsStyledLeaf(node) == node.kind = "element" /\ node.children.kind = "string"

\* The nodes of a tree at its top level.
TopLevel(nodes) == IF nodes.kind = "array" THEN nodes.items ELSE <<nodes>>

\* A tree made only of plain text and single-level styled leaf spans.
IsFlatTree(nodes) ==
    \A i \in 1..Len(TopLevel(nodes)) :
        TopLevel(nodes)[i].kind = "string" \/ IsStyledLeaf(TopLevel(nodes)[i])

\* The styled nodes of a sequence, each with the visible text before it.
StyledAt(items) ==
    LET at == SelectSeq([i \in 1..Len(items) |-> i],
                        LAMBDA i : items[i].kind = "element")
    IN  [k \in 1..Len(at) |->
            [type |-> items[at[k]].type,
             text |-> visibleText(items[at[k]]),
             before |-> visibleTexts(SubSeq(items, 1, at[k] - 1))]]

\* C29: the round trip of the codec.  For a tree T made only of plain text
\* and single-level styled leaf spans, restoreStyledText applied to the
\* template and styles extracted from T yields a sequence whose visible
\* text is the visible text of T and whose styled nodes are T's styled
\* elements at the same positions in that text.
C29_RoundTrip ==
    (step.op = "restoreStyledText" /\ IsFlatTree(step.ret.nodes))
        => /\ visibleText(step.ret.restored) = visibleText(step.ret.nodes)
           /\ StyledAt(step.ret.restored.items) = StyledAt(TopLevel(step.ret.nodes))

\* The leaves of a tree in document order (depth-first, left to right):
\* plain strings and styled leaf spans; arrays and elements that wrap
\* further children give their children's leaves, anything else none.
RECURSIVE DocLeaves(_)
RECURSIVE DocLeavesOf(_)
DocLeaves(node) ==
    CASE node.kind = "string" -> <<node>>
      [] node.kind = "array" -> DocLeavesOf(node.items)
      [] node.kind = "element" ->
            IF node.children.kind = "string" THEN <<node>> ELSE DocLeaves(node.children)
      [] OTHER -> <<>>

DocLeavesOf(nodes) ==
    IF nodes = <<>> THEN <<>> ELSE DocLeaves(Head(nodes)) \o DocLeavesOf(Tail(nodes))

\* The styled leaf spans of a tree in document order.
DocStyled(nodes) == SelectSeq(DocLeaves(nodes), IsStyledLeaf)

\* The template document order prescribes: plain text verbatim, the k-th
\* styled leaf span as <k>text</k>.
RECURSIVE DocTemplate(_, _)
DocTemplate(leaves, k) ==
    IF leaves = <<>> THEN <<>>
    ELSE IF IsStyledLeaf(Head(leaves))
    THEN Marker(k, Head(leaves).children.value) \o DocTemplate(Tail(leaves), k + 1)
    ELSE Head(leaves).value \o DocTemplate(Tail(leaves), k)

\* C30: extractTextAndStyles assigns marker indices in document order.  The
\* k-th styled element that directly wraps a plain string is emitted as
\* <k>text</k> and styles[k] is that element with that text; plain-text
\* leaves are appended verbatim; an element wrapping further children
\* contributes only its children's output; null children contribute
\* nothing; empty input gives an empty template and no styles.
C30_DocumentOrder ==
    step.op = "extractTextAndStyles"
        => /\ step.ret.styles =
                [k \in 1..Len(DocStyled(step.ret.nodes)) |->
                    [node |-> DocStyled(step.ret.nodes)[k],
                     text |-> DocStyled(step.ret.nodes)[k].children.value]]
           /\ step.ret.text = DocTemplate(DocLeaves(step.ret.nodes), 0)

\* The positions of the segments <open>content</close> among the pieces.
MarkersAt(pieces) ==
    SelectSeq([i \in 1..Len(pieces) |-> i], LAMBDA i : pieces[i].kind = "marker")

\* The segments among them whose closing index repeats the opening one.
WellFormed(pieces) ==
    SelectSeq(MarkersAt(pieces), LAMBDA i : pieces[i].open = pieces[i].close)

\* The plain text between the j-th marker segment and the next one (before
\* the first one for j = 0).
TextAfter(pieces, j) ==
    LET at == MarkersAt(pieces)
        from == IF j = 0 THEN 1 ELSE at[j] + 1
        to == IF j = Len(at) THEN Len(pieces) ELSE at[j + 1] - 1
    IN  TemplateOf(SubSeq(pieces, from, to))

\* What restoreStyledText makes of the j-th marker segment: a copy of the
\* style's node around the inner text when the indices agree and the style
\* exists, the literal segment otherwise.
RestoredMarker(pieces, j, styles) ==
    LET piece == pieces[MarkersAt(pieces)[j]]
    IN  IF piece.open = piece.close /\ piece.open + 1 <= Len(styles)
        THEN cloneElement(styles[piece.open + 1].node, 2 * j - 1, piece.content)
        ELSE StringNode(PieceText(piece))

\* C31 as stated: a template with k well-formed markers yields exactly
\* 2k+1 elements.
C31_Original ==
    step.op = "restoreTemplate"
        => Len(step.ret.restored.items) = 2 * Len(WellFormed(step.ret.pieces)) + 1

\* C31 amended: restoreStyledText is fail-open.  A marker whose index has no
\* entry in styles is output as its literal text, a marker with an existing
\* index becomes a copy of styles[i].node around the marker's inner text, a
\* segment whose closing index differs from its opening index is output as
\* its literal text, and the text between segments, empty text included,
\* is output unchanged in position: a template with k segments of the form
\* <digits>text</digits> yields exactly 2k+1 elements.
C31_FailOpen ==
    step.op = "restoreTemplate"
        => LET pieces == step.ret.pieces
               k == Len(MarkersAt(pieces))
               items == step.ret.restored.items
           IN  /\ Len(items) = 2 * k + 1
               /\ \A j \in 0..k : items[2 * j + 1] = StringNode(TextAfter(pieces, j))
               /\ \A j \in 1..k : items[2 * j] = RestoredMarker(pieces, j, step.ret.styles)

\* A template with a restored marker, a marker without a style and a
\* segment whose indices differ was restored.
C31_Witness ==
    /\ step.op = "restoreTemplate"
    /\ Len(step.ret.styles) = 1
    /\ step.ret.pieces =
          <<MarkerPiece(0, <<97>>, 0), MarkerPiece(2, <<97>>, 2), MarkerPiece(0, <<97>>, 1)>>

\* ============================================== generateHash called directly
\* Strings of UTF-16 code units: "A", "B", "a" and the largest code unit.
HashAlphabet == {65, 66, 97, 65535}
HashInputs == UNION {[1..n -> HashAlphabet] : n \in 0..MaxHashLen}

\* ToDigits above renders a non-negative integer; hash.toString() also
\* renders the sign.  (The engine's maps are keyed by the integer itself:
\* the rendering is one-to-one.)
toString(n) ==
    IF n >= 0 THEN ToDigits(n)
    ELSE LET m == 0 - (n + 1)
         IN  <<45>> \o (IF m % 10 < 9
                        THEN (IF m < 10 THEN <<>> ELSE ToDigits(m \div 10))
                                \o <<48 + (m % 10) + 1>>
                        ELSE ToDigits((m \div 10) + 1) \o <<48>>)

\* generateHash(text)
generateHashCall ==
    \E text \in HashInputs :
        /\ step.op = "none"
        /\ step' = [Label("generateHash") EXCEPT
                        !.text = text, !.ret = toString(computeHash(text))]
        /\ Quiet
        /\ UNCHANGED <<config, isSSR, cache, cacheLoaded, storage, pendingTranslations,
                       batchTimeout, timer, isInitialized, lastRefreshTime,
                       onTranslationsUpdated, persisted, inflight, requests, window,
                       sinceMiss, serverVars>>

\* getCachedTranslation and translate hash the same text again later.
generateHashAgain ==
    /\ step.op = "generateHash"
    /\ step' = [Label("generateHashAgain") EXCEPT
                    !.text = step.text,
                    !.ret = <<step.ret, toString(computeHash(step.text))>>]
    /\ Quiet
    /\ UNCHANGED <<config, isSSR, cache, cacheLoaded, storage, pendingTranslations,
                   batchTimeout, timer, isInitialized, lastRefreshTime,
                   onTranslationsUpdated, persisted, inflight, requests, window,
                   sinceMiss, serverVars>>

NextHash ==
    \/ generateHashCall
    \/ generateHashAgain

SpecHash == InitServerRegime /\ [][NextHash]_vars

\* a + b reduced to a signed 32-bit two's-complement integer, for a and b
\* in that range.
WrapAdd(a, b) ==
    IF a >= 0 /\ b >= 0 /\ a > 2147483647 - b
    THEN ((a - 2147483647) - 1) + ((b - 2147483647) - 1)
    ELSE IF a < 0 /\ b < 0 /\ a < (0 - 2147483647) - 1 - b
    THEN ((a + 2147483647) + 1) + ((b + 2147483647) + 1)
    ELSE a + b

\* 31 * h reduced to a signed 32-bit integer: 16h + 8h + 4h + 2h + h.
Times31(h) ==
    LET h2 == WrapAdd(h, h)
        h4 == WrapAdd(h2, h2)
        h8 == WrapAdd(h4, h4)
        h16 == WrapAdd(h8, h8)
    IN  WrapAdd(WrapAdd(WrapAdd(WrapAdd(h16, h8), h4), h2), h)

\* h_n of the recurrence h_0 = 0, h_{i+1} = 31 * h_i + code(s_i) reduced.
RECURSIVE Recurrence(_, _)
Recurrence(str, i) ==
    IF i = 0 THEN 0
    ELSE LET h == Recurrence(str, i - 1) IN WrapAdd(Times31(h), str[i])

\* The integer a decimal numeral denotes: digits read from the left, a
\* leading "-" for a negative number.
RECURSIVE NegatedValue(_)
NegatedValue(digits) ==
    IF digits = <<>> THEN 0
    ELSE 10 * NegatedValue(SubSeq(digits, 1, Len(digits) - 1))
            - (digits[Len(digits)] - 48)

IsDecimal(str) ==
    LET digits == IF str # <<>> /\ Head(str) = 45 THEN Tail(str) ELSE str
    IN  /\ digits # <<>>
        /\ \A i \in 1..Len(digits) : digits[i] \in 48..57
        /\ Len(digits) > 1 => digits[1] # 48
        /\ digits = <<48>> => str = digits

DecimalValue(str) ==
    IF Head(str) = 45 THEN NegatedValue(Tail(str)) ELSE 0 - NegatedValue(str)

\* C32: generateHash is a pure function of the character codes: for every
\* string it is the decimal rendering of h_n, where h_0 = 0 and
\* h_{i+1} = 31 * h_i + code(s_i) reduced to a signed 32-bit integer;
\* generateHash("") is "0"; two calls on the same string agree.
C32_GenerateHash ==
    /\ step.op = "generateHash"
        => /\ IsDecimal(step.ret)
           /\ DecimalValue(step.ret) = Recurrence(step.text, Len(step.text))
           /\ step.text = EmptyString => step.ret = <<48>>
    /\ step.op = "generateHashAgain" => step.ret[1] = step.ret[2]

\* A hash that wrapped around to a negative number was rendered.
C32_Witness ==
    /\ step.op = "generateHash"
    /\ Len(step.text) = MaxHashLen
    /\ Head(step.ret) = 45

\* ================================================= snapshots of different age
\* CACHE_REFRESH_TTL_MS (cacheTTL, 24 hours by default), in the unit of the
\* time stamps.
CACHE_REFRESH_TTL == 1

\* A snapshot whose last refresh is one unit old when the engine starts
\* (Date.now() is MaxStamp); StoredSnapshot's is older than that.
FreshSnapshot ==
    Snapshot(TRUE, (generateHash(TextC) :> ApiTranslation(TextC)), MaxStamp - 1)

TtlSetups == {<<ConfigFr, FALSE, StoredSnapshot>>, <<ConfigFr, FALSE, FreshSnapshot>>}

InitTtl == EngineFrom(TtlSetups) /\ InitServer

NextTtl ==
    \/ init
    \/ InitLoaded
    \/ translate
    \/ Tick
    \/ DebounceFire
    \/ DebounceResponse

SpecTtl == InitTtl /\ [][NextTtl]_vars

\* The snapshot's last refresh is older than the validity period.
Expired(store) == MaxStamp - store.lastRefreshTime > CACHE_REFRESH_TTL

\* C33: the persisted cache is valid for cacheTTL hours.  Once the
\* snapshot's last refresh is older than that, init makes a full refresh:
\* its /v1/translations request carries no lastRefreshTime; a younger
\* snapshot leads to an incremental request that carries it.
C33_CacheTtl ==
    [][(step'.op = "init" /\ Parses(persisted))
          => \A req \in inflight' \ inflight :
                req.lastRefreshTime =
                    IF Expired(persisted) THEN 0 ELSE persisted.lastRefreshTime
      ]_vars

\* ============================================ configurations with hyphens
\* Locales of the shapes validateLocale accepts: ("k", "en-us", "fr") and
\* ("k", "en", "us-fr").
ConfigEnUsToFr ==
    [apiKey |-> <<"k">>, sourceLocale |-> <<"en", "-", "us">>, targetLocale |-> <<"fr">>]
ConfigEnToUsFr ==
    [apiKey |-> <<"k">>, sourceLocale |-> <<"en">>, targetLocale |-> <<"us", "-", "fr">>]
HyphenConfigs == {ConfigEnUsToFr, ConfigEnToUsFr}

translateServerStringsLocales(c) == translateServerStringsWith(c, HyphenConfigs)

NextRegistry ==
    \/ \E c \in Callers : translateServerStringsLocales(c)
    \/ \E c \in Callers : ResumeGetService(c)
    \/ \E c \in Callers : ResumeBatch(c)
    \/ InitResponse
    \/ TimerFire
    \/ BatchResponse
    \/ BatchFinish

SpecRegistry == InitServerRegime /\ [][NextRegistry]_vars

\* C34: registry isolation.  Calls whose configurations differ in apiKey,
\* sourceLocale or targetLocale never share an engine instance or a
\* pending batch: the engine a call was given was built for that call's
\* configuration, and the calls attached to one batch have one
\* configuration.
C34_RegistryIsolation ==
    /\ \A c \in Callers :
          callers[c].service # 0
              => engines[callers[c].service].config = callers[c].config
    /\ \A c, d \in Callers :
          (callers[c].batch # 0 /\ callers[c].batch = callers[d].batch)
              => callers[c].config = callers[d].config

\* The translations that were stored or fetched for a text: the API's
\* translation of it and what preloadTranslations was given for it.
TranslationsFor(text) ==
    {ApiTranslation(text)}
    \cup {translations[text] : translations \in {p \in PreloadInputs : text \in DOMAIN p}}

\* C35: translate(t) and getCachedTranslation(t) return nothing (null), the
\* text itself, or a translation that was stored or fetched for t, never
\* one of a different text, also for distinct texts with equal hash such as
\* "Aa" and "BB".
C35_Attribution ==
    step.op \in {"translate", "getCachedTranslation"}
        => step.ret \in {Null, step.text} \cup TranslationsFor(step.text)

\* A network call of the engine ended without a 2xx body.
FailedCall == step'.op \in ResponseSteps /\ ~step'.merged

\* C36 as stated: a failed /v1/translate or /v1/translations call leaves
\* the cache, the watermark and the persisted snapshot exactly as they
\* were and the subscriber is not invoked.
C36_Original ==
    [][FailedCall => /\ UNCHANGED <<cache, cacheLoaded, lastRefreshTime, persisted>>
                     /\ notified' = NoNotification]_vars

\* C36 amended: a failed /v1/translate or /v1/translations call leaves the
\* cache and the watermark exactly as they were and the subscriber is not
\* invoked; identity fallbacks are not written into the cache.  The
\* persisted snapshot is left as it was too, except that init on a browser
\* engine, after a /v1/translations call that ended with a non-2xx
\* response, writes the snapshot of the unchanged cache and watermark.
C36_FailedCallFrame ==
    [][FailedCall
          => /\ UNCHANGED <<cache, cacheLoaded, lastRefreshTime>>
             /\ notified' = NoNotification
             /\ \/ UNCHANGED persisted
                \/ /\ step'.op = "initLoaded"
                   /\ ~isSSR
                   /\ settled'.call = "non2xx"
                   /\ persisted' = Snapshot(cacheLoaded, cache, lastRefreshTime)
      ]_vars

\* The refresh of a browser engine that had hydrated a snapshot failed.
C36_Witness ==
    /\ step.op = "initLoaded"
    /\ ~step.merged
    /\ ~isSSR
    /\ cache # EmptyMap
    /\ persisted.present

\* C37: a hydrated client still translates misses.  Every initialized
\* interactive engine, also one initialized by preloadTranslations instead
\* of init(), has a storage adapter, so that scheduling is never skipped:
\* while a missed text is pending, the debounce timer that will send it is
\* running.
C37_HydratedSchedules ==
    (~isSSR /\ isInitialized)
        => /\ storage
           /\ pendingTranslations # <<>> => timer # NoTimer

\* The /v1/translate calls in flight that carry a text.
InFlightWith(text) ==
    {req \in inflight : req.endpoint = "v1/translate" /\ text \in SeqToSet(req.texts)}

\* C38 as stated: while a batch containing a text is in flight, the text is
\* not sent in a second /v1/translate call.
C38_Original ==
    \A r1, r2 \in inflight :
        (r1 # r2 /\ r1.endpoint = "v1/translate" /\ r2.endpoint = "v1/translate")
            => SeqToSet(r1.texts) \cap SeqToSet(r2.texts) = {}

\* C38 amended: a batch carries a text at most once; while a batch
\* containing a text is in flight, a further translate call for it
\* (through the provider's translate, which calls the engine's) does not
\* join the in-flight call: the text becomes pending again for a fresh
\* debounce cycle, which sends it in a second call if its timer fires
\* before the first response is merged.
C38_FreshCycle ==
    [][/\ \A req \in inflight' \ inflight :
             req.endpoint = "v1/translate" => NoDuplicates(req.texts)
       /\ (/\ step'.op \in {"translate", "providerTranslate"}
           /\ InFlightWith(step'.text) # {}
           /\ ~loading
           /\ ~Truthy(getCachedTranslation(cache, step'.text)))
            => /\ inflight' = inflight
               /\ isTranslationPending(pendingTranslations', step'.text)
      ]_vars

\* A text is in flight in two /v1/translate calls at once.
C38_Witness ==
    \E r1, r2 \in inflight :
        /\ r1 # r2
        /\ r1.endpoint = "v1/translate"
        /\ r2.endpoint = "v1/translate"
        /\ SeqToSet(r1.texts) \cap SeqToSet(r2.texts) # {}


\* A translate call, direct or through the provider, for a text whose key a
\* merged response has put into the cache.
ResolvedCall ==
    /\ step'.op \in {"translate", "providerTranslate"}
    /\ generateHash(step'.text) \in DOMAIN cache

\* C39: once a successful response containing the key hash(t) has been
\* merged into the cache, a later translate(t) is served from the cache: it
\* does not enqueue t, arms no timer and issues no network call, whatever the
\* value of the response, the empty string included.
C39_ResolvedNeverRequested ==
    [][ResolvedCall =>
          /\ pendingTranslations' = pendingTranslations
          /\ timer' = timer
          /\ inflight' = inflight
          /\ requests' = requests
      ]_vars

\* The same for the non-empty response values only.
C39_NonEmptyServed ==
    [][(ResolvedCall /\ cache[generateHash(step'.text)] # EmptyString) =>
          /\ pendingTranslations' = pendingTranslations
          /\ timer' = timer
          /\ inflight' = inflight
          /\ requests' = requests
      ]_vars


\* The entry-point calls whose getService has resolved to an instance.
Served == {c \in Callers : callers[c].service # 0}

\* C40: the registry only hands out initialized engines. An instance is in
\* the services map only once its init() has settled (isInitialized is set,
\* no /v1/translations call of it is outstanding); the init promise of a
\* key is held exactly until its initiator resumes, which is after the
\* registration; a caller that found the key in services, or that waits for
\* the init promise, has an instance to resolve to; every call resolves to
\* an initialized instance, and so does every /v1/translate call that
\* translateBatch issues on a registry instance.
C40_InitializedOnly ==
    /\ \A key \in DOMAIN services :
          /\ services[key] \in 1..Len(engines)
          /\ engines[services[key]].isInitialized
          /\ \A req \in net : req.endpoint = "v1/translations"
                                  => req.service # services[key]
    /\ \A key \in initPromises :
          \E c \in Callers : /\ callers[c].pc = "awaitInitOwner"
                             /\ cacheKey(callers[c].config) = key
    /\ \A c \in Callers :
          /\ callers[c].pc = "getService"
                => cacheKey(callers[c].config) \in DOMAIN services
          /\ callers[c].pc = "awaitInit"
                => \/ cacheKey(callers[c].config) \in initPromises
                   \/ cacheKey(callers[c].config) \in DOMAIN services
          /\ c \in Served => /\ callers[c].service \in 1..Len(engines)
                             /\ engines[callers[c].service].isInitialized
    /\ \A req \in net : req.endpoint = "v1/translate"
                            => engines[req.service].isInitialized

\* Two calls have resolved to the same instance, whose init() had failed.
C40_Witness ==
    \E c, d \in Served :
        /\ c # d
        /\ callers[c].service = callers[d].service
        /\ engines[callers[c].service].lastRefreshTime = 0
        /\ engines[callers[c].service].cache = EmptyMap

====
